---- MODULE Spec2Model ----
(***************************************************************************)
(* FitScreenJS: a FitScreenJS instance (index.js), the Scaler it owns      *)
(* (core/scaler.js), the mode helpers (core/modes.js), the design-size     *)
(* resolver (core/detector.js) and the helpers (utils/helpers.js), as a    *)
(* state machine over one container element and the window.                *)
(* A second instance on the same page, where independence is studied, is   *)
(* held in the variable other.                                              *)
(*                                                                         *)
(* Numbers: pixel sizes are integers; scales are exact rationals           *)
(* [n |-> numerator, d |-> denominator], reduced, d > 0 (d = 0 for         *)
(* Infinity and NaN).  Where the rounding of IEEE 754 doubles matters,     *)
(* calculateScale is also computed on doubles [e |-> exponent,             *)
(* m |-> 53 mantissa bits], rounded to nearest, ties to even.              *)
(* JavaScript values that are inspected with typeof / truthiness are       *)
(* records [t |-> type, v |-> characters]; a string is its sequence of     *)
(* characters, so that toLowerCase is computed and not assumed.            *)
(***************************************************************************)
EXTENDS Integers, Sequences, FiniteSets, TLC

(***************************************************************************)
(* Bounds of the model.                                                    *)
(***************************************************************************)
\* container and design dimensions range over 0..MaxDim (design inputs also -1)
MaxDim == 2

\* the delay FitScreenJS.applyTo passes to debounce
RESIZE_WAIT == 100

\* the time one Tick lets pass
TickStep == 50

\* DEFAULT_DESIGN
DEFAULT_WIDTH == 1920
DEFAULT_HEIGHT == 1080

NULL == "null"

(***************************************************************************)
(* JavaScript values                                                       *)
(***************************************************************************)
JsString(chars) == [t |-> "string", v |-> chars]
JsUndefined == [t |-> "undefined", v |-> <<>>]
JsNull == [t |-> "null", v |-> <<>>]
JsNumber(digits) == [t |-> "number", v |-> digits]

\* !x for the values above: undefined, null, "" and 0 are falsy
Falsy(x) ==
    \/ x.t \in {"undefined", "null"}
    \/ x.t = "string" /\ x.v = <<>>
    \/ x.t = "number" /\ x.v = <<"0">>

UpperChars == <<"A","B","C","D","E","F","G","H","I","J","K","L","M",
                "N","O","P","Q","R","S","T","U","V","W","X","Y","Z">>
LowerChars == <<"a","b","c","d","e","f","g","h","i","j","k","l","m",
                "n","o","p","q","r","s","t","u","v","w","x","y","z">>

\* String.prototype.toLowerCase, character by character
toLowerCase(chars) ==
    [i \in DOMAIN chars |->
        IF \E k \in DOMAIN UpperChars : UpperChars[k] = chars[i]
        THEN LowerChars[CHOOSE k \in DOMAIN UpperChars : UpperChars[k] = chars[i]]
        ELSE chars[i]]

\* MODES = { PROPORTIONAL: 'proportional', FULLSCREEN: 'fullscreen' }
PROPORTIONAL == JsString(<<"p","r","o","p","o","r","t","i","o","n","a","l">>)
FULLSCREEN == JsString(<<"f","u","l","l","s","c","r","e","e","n">>)
MODES == {PROPORTIONAL, FULLSCREEN}

\* validateMode comparing the mode as it was written
validateMode_CaseSensitive(mode) ==
    IF Falsy(mode) \/ mode.t # "string"
    THEN PROPORTIONAL
    ELSE IF mode \in MODES THEN mode ELSE PROPORTIONAL

\* validateMode(mode)
validateMode(mode) ==
    IF Falsy(mode) \/ mode.t # "string"
    THEN PROPORTIONAL
    ELSE LET normalizedMode == JsString(toLowerCase(mode.v))
         IN  IF normalizedMode \in MODES THEN normalizedMode ELSE PROPORTIONAL

(***************************************************************************)
(* Rational arithmetic for scales                                          *)
(***************************************************************************)
\* Operands are bound to their values before they are used (x \in {a}), so
\* that no operand is computed more than once.
Abs(x) == IF x < 0 THEN -x ELSE x

RECURSIVE GCD(_, _)
GCD(a, b) ==
    IF b = 0 THEN a ELSE CHOOSE g \in {GCD(y, x % y) : x \in {a}, y \in {b}} : TRUE

\* n/d with the common factor g taken out and the sign in the numerator
Reduced(n, d, g) ==
    [n |-> ((IF d < 0 THEN -1 ELSE 1) * n) \div g,
     d |-> ((IF d < 0 THEN -1 ELSE 1) * d) \div g]

\* the sign of x
Sign(x) == IF x > 0 THEN 1 ELSE IF x < 0 THEN -1 ELSE 0

\* the number n / d: the rational n/d, reduced, for d # 0; a division by zero
\* gives Infinity (1/0), -Infinity (-1/0) or NaN (0/0), the denominator 0
Rat(n, d) ==
    CHOOSE r \in {IF y = 0 THEN [n |-> Sign(x), d |-> 0]
                  ELSE Reduced(x, y, GCD(Abs(x), Abs(y))) : x \in {n}, y \in {d}} : TRUE

RatOne == [n |-> 1, d |-> 1]
RatLE(a, b) == a.n * b.d <= b.n * a.d
RatMin(a, b) == CHOOSE r \in {IF RatLE(x, y) THEN x ELSE y : x \in {a}, y \in {b}} : TRUE
RatMax(a, b) == CHOOSE r \in {IF RatLE(x, y) THEN y ELSE x : x \in {a}, y \in {b}} : TRUE
RatMul(a, b) ==
    CHOOSE r \in {Rat(x.n * y.n, x.d * y.d) : x \in {a}, y \in {b}} : TRUE
RatSub(a, b) ==
    CHOOSE r \in {Rat(x.n * y.d - y.n * x.d, x.d * y.d) : x \in {a}, y \in {b}} : TRUE
RatInt(k) == [n |-> k, d |-> 1]

\* calculateScale taking the smaller ratio whatever cover is
calculateScale_Contain(containerWidth, containerHeight, contentWidth, contentHeight, cover) ==
    RatMin(Rat(containerWidth, contentWidth), Rat(containerHeight, contentHeight))

\* calculateScale with the two modes' choices exchanged
calculateScale_Swapped(containerWidth, containerHeight, contentWidth, contentHeight, cover) ==
    IF cover
    THEN RatMin(Rat(containerWidth, contentWidth), Rat(containerHeight, contentHeight))
    ELSE RatMax(Rat(containerWidth, contentWidth), Rat(containerHeight, contentHeight))

\* calculateScale(containerWidth, containerHeight, contentWidth, contentHeight, cover)
\* (called with contentWidth, contentHeight # 0 only)
calculateScale(containerWidth, containerHeight, contentWidth, contentHeight, cover) ==
    IF cover
    THEN RatMax(Rat(containerWidth, contentWidth), Rat(containerHeight, contentHeight))
    ELSE RatMin(Rat(containerWidth, contentWidth), Rat(containerHeight, contentHeight))

\* calculateNonProportionalScale(containerWidth, containerHeight, contentWidth, contentHeight)
calculateNonProportionalScale(containerWidth, containerHeight, contentWidth, contentHeight) ==
    [scaleX |-> Rat(containerWidth, contentWidth),
     scaleY |-> Rat(containerHeight, contentHeight)]

(***************************************************************************)
(* JS numbers as IEEE 754 doubles, for the arithmetic whose rounding is    *)
(* under study: a number >= 0 is [e, m] with m its Precision significant   *)
(* bits, the first one 1, and value 1.m[2]m[3]... * 2^e.                   *)
(***************************************************************************)
\* the significant bits of a double
Precision == 53

\* the only value of S
Only(S) == CHOOSE x \in S : TRUE

\* the bits of the integer k, the most significant first
RECURSIVE BitsOf(_)
BitsOf(k) == IF k = 0 THEN <<>> ELSE Append(BitsOf(k \div 2), k % 2)

\* the integer a short bit sequence spells
RECURSIVE BitsVal(_)
BitsVal(b) ==
    IF b = <<>> THEN 0 ELSE 2 * BitsVal(SubSeq(b, 1, Len(b) - 1)) + b[Len(b)]

\* n bits, all z
Repeat(z, n) == [i \in 1..n |-> z]

\* the bits of b + 1; one bit longer when b is all ones
Inc(b) ==
    IF \A i \in 1..Len(b) : b[i] = 1 THEN <<1>> \o Repeat(0, Len(b))
    ELSE Only({[i \in 1..Len(b) |-> IF i < j THEN b[i] ELSE IF i = j THEN 1 ELSE 0] :
                  j \in {CHOOSE j \in 1..Len(b) :
                             b[j] = 0 /\ \A i \in (j + 1)..Len(b) : b[i] = 1}})

\* the bits of b - 1, for b > 0
Dec(b) ==
    Only({[i \in 1..Len(b) |-> IF i < j THEN b[i] ELSE IF i = j THEN 0 ELSE 1] :
             j \in {CHOOSE j \in 1..Len(b) :
                        b[j] = 1 /\ \A i \in (j + 1)..Len(b) : b[i] = 0}})

\* 0, with an exponent below every other number's
FZero == [e |-> -2000, m |-> Repeat(0, Precision)]

\* the double nearest to 1.x[2]x[3]... * 2^e, ties to even; the last element
\* of x tells whether anything non-zero follows the bits before it
FRound(e, x) ==
    IF Len(x) - 1 <= Precision
    THEN [e |-> e, m |-> SubSeq(x, 1, Len(x) - 1) \o Repeat(0, Precision + 1 - Len(x))]
    ELSE IF \/ x[Precision + 1] = 0
            \/ /\ x[Precision] = 0
               /\ \A i \in (Precision + 2)..Len(x) : x[i] = 0
    THEN [e |-> e, m |-> SubSeq(x, 1, Precision)]
    ELSE Only({IF Len(up) > Precision
               THEN [e |-> e + 1, m |-> SubSeq(up, 1, Precision)]
               ELSE [e |-> e, m |-> up] : up \in {Inc(SubSeq(x, 1, Precision))}})

\* the integer k as a double
FInt(k) == IF k = 0 THEN FZero ELSE FRound(Len(BitsOf(k)) - 1, Append(BitsOf(k), 0))

RECURSIVE Pow2(_)
Pow2(n) == IF n <= 0 THEN 1 ELSE 2 * Pow2(n - 1)

\* 2^n mod b, by repeated squaring
RECURSIVE Pow2Mod(_, _)
Pow2Mod(n, b) ==
    IF n = 0 THEN 1 % b
    ELSE IF n % 2 = 0 THEN Only({(h * h) % b : h \in {Pow2Mod(n \div 2, b)}})
    ELSE (2 * Pow2Mod(n - 1, b)) % b

\* what is left of r / b, for r < b, after j binary places
Remainder(r, b, j) == (r * Pow2Mod(j, b)) % b

\* the binary places worked out of a quotient
Places == 2 * Precision

\* the binary expansion of a / b: the integer part, then Places places
Expansion(a, b) ==
    BitsOf(a \div b)
    \o [j \in 1..Places |-> IF 2 * Remainder(a % b, b, j - 1) >= b THEN 1 ELSE 0]

\* the index of the first 1 of x
FirstOne(x) == CHOOSE f \in 1..Len(x) : x[f] = 1 /\ \A i \in 1..(f - 1) : x[i] = 0

\* x from its first 1 on
Significant(x) == Only({SubSeq(x, f, Len(x)) : f \in {FirstOne(x)}})

\* a / b for integers a >= 0 and b > 0, correctly rounded
FDiv(a, b) ==
    IF a = 0 THEN FZero
    ELSE Only({FRound(Len(BitsOf(a \div b)) - FirstOne(x),
                      Append(Significant(x),
                             IF Remainder(a % b, b, Places) = 0 THEN 0 ELSE 1)) :
                  x \in {Expansion(a, b)}})

\* the bits a product is worked out by at a time
Limb == Precision \div 4

\* the n bits of v < 2^n
Padded(v, n) == Repeat(0, n - Len(BitsOf(v))) \o BitsOf(v)

\* the bits of b * k + c
RECURSIVE MulBits(_, _, _)
MulBits(b, k, c) ==
    IF Len(b) <= Limb + 1 THEN BitsOf(BitsVal(b) * k + c)
    ELSE Only({MulBits(SubSeq(b, 1, Len(b) - Limb), k, p \div Pow2(Limb))
               \o Padded(p % Pow2(Limb), Limb) :
                  p \in {BitsVal(SubSeq(b, Len(b) - Limb + 1, Len(b))) * k + c}})

\* k * x for an integer k > 0 and a double x, correctly rounded
FMul(k, x) ==
    IF x = FZero THEN FZero
    ELSE Only({FRound(x.e + Len(p) - Precision, Append(p, 0)) : p \in {MulBits(x.m, k, 0)}})

\* x <= y
FLE(x, y) ==
    \/ x.e < y.e
    \/ /\ x.e = y.e
       /\ \/ x.m = y.m
          \/ \E i \in 1..Precision : /\ x.m[i] < y.m[i]
                                     /\ \A j \in 1..(i - 1) : x.m[j] = y.m[j]

\* Math.min and Math.max
FMin(x, y) == IF FLE(x, y) THEN x ELSE y
FMax(x, y) == IF FLE(x, y) THEN y ELSE x

\* the doubles next above and next below x > 0
FSucc(x) ==
    Only({IF Len(up) > Precision
          THEN [e |-> x.e + 1, m |-> SubSeq(up, 1, Precision)]
          ELSE [e |-> x.e, m |-> up] : up \in {Inc(x.m)}})
FPred(x) ==
    IF \A i \in 2..Precision : x.m[i] = 0
    THEN [e |-> x.e - 1, m |-> [i \in 1..Precision |-> 1]]
    ELSE [e |-> x.e, m |-> Dec(x.m)]

\* calculateScale in double arithmetic with the two modes' choices exchanged
calculateScaleDouble_Swapped(containerWidth, containerHeight, contentWidth, contentHeight, cover) ==
    IF cover
    THEN FMin(FDiv(containerWidth, contentWidth), FDiv(containerHeight, contentHeight))
    ELSE FMax(FDiv(containerWidth, contentWidth), FDiv(containerHeight, contentHeight))

\* calculateScale in double arithmetic, for integer sizes
calculateScaleDouble(containerWidth, containerHeight, contentWidth, contentHeight, cover) ==
    IF cover
    THEN FMax(FDiv(containerWidth, contentWidth), FDiv(containerHeight, contentHeight))
    ELSE FMin(FDiv(containerWidth, contentWidth), FDiv(containerHeight, contentHeight))

(***************************************************************************)
(* The display surface: the container element, the '.fitscreen-content'    *)
(* wrapper (content) and the container's original first child.             *)
(***************************************************************************)
\* a CSS length: '' (none), 'Npx' (px) or 'N%' (pct); a number written to a
\* dataset entry is (num)
CssLen(u, v) == [u |-> u, v |-> v]
CssNone == CssLen("none", 0)
CssPx(v) == CssLen("px", v)
CssPct(v) == CssLen("pct", v)
CssNum(v) == CssLen("num", v)

\* parseFloat of a length; 0 stands for NaN where the caller tests truthiness
\* or > 0 (both reject NaN and 0 alike)
parseFloatLen(l) == IF l.u = "none" THEN 0 ELSE l.v

\* a style.transform value
Transform(k, x, y) == [k |-> k, x |-> x, y |-> y]
TransformUnset == Transform("unset", RatOne, RatOne)
TransformNone == Transform("none", RatOne, RatOne)

\* a style.left / style.top value
PosUnset == [set |-> FALSE, v |-> RatInt(0)]
PosPx(r) == [set |-> TRUE, v |-> r]

\* the wrapper element document.createElement('div') returns
\* (the fields the library reads back: position, width, height, transform, the
\* dataset entries and whether the first child was stretched; the offsets it
\* only writes are carried by the style step's record in calls)
NewContent ==
    [position |-> "static", width |-> CssNone, height |-> CssNone,
     transform |-> TransformUnset,
     originalWidth |-> CssNone, originalHeight |-> CssNone,
     firstChildFill |-> FALSE]

\* the container's style before the library touches it
NewContainerStyle ==
    [position |-> "unset", overflow |-> "unset", width |-> CssNone,
     height |-> CssNone, backgroundColor |-> "null"]

\* content.offsetWidth: the layout width of the wrapper. A px width is itself,
\* a percentage resolves against the container, and without a width the
\* wrapper is as wide as the container while in flow and shrinks to its child
\* once absolutely positioned.
ContentOffsetWidth(m) ==
    LET c == m.content
    IN  CASE c.width.u = "px" -> c.width.v
          [] c.width.u = "pct" -> (m.container.offsetWidth * c.width.v) \div 100
          [] OTHER -> IF c.position = "absolute"
                      THEN (IF m.child.present /\ ~c.firstChildFill THEN m.child.width ELSE 0)
                      ELSE m.container.offsetWidth

\* content.offsetHeight: as the width, but an auto height is the child's height
ContentOffsetHeight(m) ==
    LET c == m.content
    IN  CASE c.height.u = "px" -> c.height.v
          [] c.height.u = "pct" -> (m.container.offsetHeight * c.height.v) \div 100
          [] OTHER -> IF m.child.present /\ ~c.firstChildFill THEN m.child.height ELSE 0

(***************************************************************************)
(* Calls made to collaborators during one operation, in order.             *)
(***************************************************************************)
Event(f) ==
    [f |-> f, w |-> 0, h |-> 0, scale |-> RatOne, pair |-> "none",
     x |-> RatOne, y |-> RatOne, mode |-> JsUndefined,
     left |-> PosUnset, top |-> PosUnset]

Log(m, e) == [m EXCEPT !.calls = Append(@, e)]

\* a TypeError thrown by the operation under way: a call of a value that is
\* not a function, or a property read or written through null
Raise(m) == Log(m, Event("TypeError"))

\* fn(...): the call e when the value fn is a function
Call(m, fn, e) == IF fn = "function" THEN Log(m, e) ELSE Raise(m)

\* an option read with a destructuring default
OptionOr(v, default) == IF v = "undefined" THEN default ELSE v = "true"

\* the container styling shared by both style steps
StyleContainer(style, backgroundColor, fill) ==
    LET s1 == [style EXCEPT !.position = "relative", !.overflow = "hidden"]
        s2 == IF fill THEN [s1 EXCEPT !.width = CssPct(100), !.height = CssPct(100)] ELSE s1
    IN  IF backgroundColor # "null" THEN [s2 EXCEPT !.backgroundColor = backgroundColor] ELSE s2

\* Math.max(0, (outer - inner * scale) / 2)
CenterOffset(outer, inner, scale) ==
    RatMax(RatInt(0),
           RatMul(RatSub(RatInt(outer), RatMul(RatInt(inner), scale)), Rat(1, 2)))

\* A sequence of statements is written {S2(b) : b \in {S1(a)}}: the world S1
\* leaves is computed once and handed to S2.  The is the world that results.
The(S) == CHOOSE x \in S : TRUE

\* applyProportionalMode: the container styling
ProportionalContainer(m, options) ==
    [m EXCEPT !.container.style = StyleContainer(@, options.backgroundColor, FALSE)]

\* applyProportionalMode: the centring offsets, read from the layout after the
\* content has been positioned; the record logged carries the scale and the
\* offsets written to content.style
ProportionalCentre(m, scale, centerContent) ==
    Log(m, IF centerContent
           THEN [Event("applyProportionalMode") EXCEPT
                    !.scale = scale,
                    !.left = PosPx(CenterOffset(m.container.offsetWidth,
                                                ContentOffsetWidth(m), scale)),
                    !.top = PosPx(CenterOffset(m.container.offsetHeight,
                                               ContentOffsetHeight(m), scale))]
           ELSE [Event("applyProportionalMode") EXCEPT !.scale = scale])

\* applyProportionalMode(container, content, scale, options)
applyProportionalMode(m, scale, options) ==
    IF ~OptionOr(options.scaleContent, TRUE)
    THEN Log(ProportionalContainer(m, options),
             [Event("applyProportionalMode") EXCEPT !.scale = scale])
    ELSE The({ProportionalCentre(m1, scale, OptionOr(options.centerContent, TRUE)) : m1 \in
             {[ProportionalContainer(m, options) EXCEPT
                  !.content.position = "absolute",
                  !.content.transform = Transform("scale", scale, scale)]}})

\* applyFullscreenMode: the container styling
FullscreenContainer(m, options) ==
    [m EXCEPT !.container.style = StyleContainer(@, options.backgroundColor, TRUE)]

\* applyFullscreenMode writing the scaled size as the content's width and height
FullscreenBox_Scaled(m, useTransform, scaleX, scaleY) ==
    IF useTransform
    THEN [m EXCEPT !.content.position = "absolute",
                   !.content.width =
                       CssPx((ContentOffsetWidth(m) * scaleX.n) \div scaleX.d),
                   !.content.height =
                       CssPx((ContentOffsetHeight(m) * scaleY.n) \div scaleY.d),
                   !.content.transform = Transform("scaleXY", scaleX, scaleY)]
    ELSE [m EXCEPT !.content.position = "absolute",
                   !.content.width = CssPct(100),
                   !.content.height = CssPct(100),
                   !.content.transform = TransformNone]

\* applyFullscreenMode: the content box; offsetWidth and offsetHeight are read
\* before any style is written.  scaleX and scaleY are numbers, never null.
FullscreenBox(m, useTransform, scaleX, scaleY) ==
    IF useTransform
    THEN [m EXCEPT !.content.position = "absolute",
                   !.content.width = CssPx(ContentOffsetWidth(m)),
                   !.content.height = CssPx(ContentOffsetHeight(m)),
                   !.content.transform = Transform("scaleXY", scaleX, scaleY)]
    ELSE [m EXCEPT !.content.position = "absolute",
                   !.content.width = CssPct(100),
                   !.content.height = CssPct(100),
                   !.content.transform = TransformNone]

\* applyFullscreenMode: the content's first child
FullscreenChild(m, preserveChildStyles) ==
    IF ~preserveChildStyles /\ m.child.present
    THEN [m EXCEPT !.content.firstChildFill = TRUE]
    ELSE m

\* applyFullscreenMode(container, content, scale, options), options carrying
\* scaleX and scaleY
applyFullscreenMode(m, scale, options, scaleX, scaleY) ==
    IF ~OptionOr(options.scaleContent, TRUE)
    THEN Log(FullscreenContainer(m, options),
             [Event("applyFullscreenMode") EXCEPT
                 !.scale = scale, !.pair = "pair", !.x = scaleX, !.y = scaleY])
    ELSE Log(The({FullscreenChild(m2, OptionOr(options.preserveChildStyles, TRUE)) : m2 \in
                 {FullscreenBox(m1, OptionOr(options.useTransform, TRUE), scaleX, scaleY) :
                     m1 \in {FullscreenContainer(m, options)}}}),
             [Event("applyFullscreenMode") EXCEPT
                 !.scale = scale, !.pair = "pair", !.x = scaleX, !.y = scaleY,
                 !.left = PosPx(RatInt(0)), !.top = PosPx(RatInt(0))])

(***************************************************************************)
(* The state.  A world record g carries every variable through the calls   *)
(* one operation makes; World is the current one.                          *)
(***************************************************************************)
VARIABLES
    options,        \* FitScreenJS.options, normalized
    scaler,         \* the Scaler: options, container, content, designSize,
                    \* currentScale, currentScaleX, currentScaleY, currentMode,
                    \* isInitialized
    isInitialized,  \* FitScreenJS.isInitialized
    isDestroyed,    \* FitScreenJS.isDestroyed
    listening,      \* _resizeHandler is in the window's 'resize' listeners
    added,          \* addEventListener calls made so far
    removed,        \* removeEventListener calls made so far
    timeouts,       \* remaining delays of the debounced handler's pending timers
    container,      \* the container element: offsetWidth, offsetHeight, style
    wrapped,        \* the container holds a '.fitscreen-content' wrapper
    content,        \* the wrapper element's style and dataset
    child,          \* the container's original first child: present, width, height
    calls,          \* the calls the last operation made to its collaborators
    op,             \* the last operation and its argument
    sinceCall,      \* <<>> before the debounced handler's first call, then <<the
                    \* time since its most recent call>> (capped at the wait)
    invoked,        \* runs of the debounced function since the handler's last call (capped)
    before,         \* <<>>, or <<the design size, the scale and the container's
                    \* size when the switch from proportional to fullscreen
                    \* began>>, kept through that switch and the switch back
    asked,          \* <<>>, or <<the arguments of a call of determineDesignSize>>
    resolved,       \* <<>>, or <<the size that call returned>>
    other           \* <<>>, or <<a second instance on the same page, bound to
                    \* a container of its own>>

vars == <<options, scaler, isInitialized, isDestroyed, listening, added, removed,
          timeouts, container, wrapped, content, child, calls, op,
          sinceCall, invoked, before, asked, resolved, other>>

World ==
    [options |-> options, scaler |-> scaler, isInitialized |-> isInitialized,
     isDestroyed |-> isDestroyed, listening |-> listening, added |-> added,
     removed |-> removed, timeouts |-> timeouts, container |-> container,
     wrapped |-> wrapped, content |-> content, child |-> child, calls |-> <<>>]

(***************************************************************************)
(* Scaler                                                                  *)
(***************************************************************************)
\* Scaler.calculateCurrentScale without the test of the design size
Scaler_calculateCurrentScale_Unguarded(s, box) ==
    IF s.container = NULL
    THEN [scaler |-> s, ret |-> RatOne]
    ELSE [scaler |->
             IF s.currentMode = FULLSCREEN
             THEN [s EXCEPT
                     !.currentScaleX =
                         calculateNonProportionalScale(box.offsetWidth, box.offsetHeight,
                             s.designSize.width, s.designSize.height).scaleX,
                     !.currentScaleY =
                         calculateNonProportionalScale(box.offsetWidth, box.offsetHeight,
                             s.designSize.width, s.designSize.height).scaleY]
             ELSE s,
          ret |-> calculateScale(box.offsetWidth, box.offsetHeight,
                                 s.designSize.width, s.designSize.height,
                                 s.currentMode = FULLSCREEN)]

\* Scaler.calculateCurrentScale leaving currentScaleX / currentScaleY as they are
Scaler_calculateCurrentScale_StalePair(s, box) ==
    IF s.container = NULL \/ s.designSize.width = 0 \/ s.designSize.height = 0
    THEN [scaler |-> s, ret |-> RatOne]
    ELSE [scaler |-> s,
          ret |-> calculateScale(box.offsetWidth, box.offsetHeight,
                                 s.designSize.width, s.designSize.height,
                                 s.currentMode = FULLSCREEN)]

\* Scaler.calculateCurrentScale(): the scale returned (ret) and the Scaler
\* with currentScaleX / currentScaleY updated
Scaler_calculateCurrentScale(s, box) ==
    IF s.container = NULL \/ s.designSize.width = 0 \/ s.designSize.height = 0
    THEN [scaler |-> s, ret |-> RatOne]
    ELSE [scaler |->
             IF s.currentMode = FULLSCREEN
             THEN [s EXCEPT
                     !.currentScaleX =
                         calculateNonProportionalScale(box.offsetWidth, box.offsetHeight,
                             s.designSize.width, s.designSize.height).scaleX,
                     !.currentScaleY =
                         calculateNonProportionalScale(box.offsetWidth, box.offsetHeight,
                             s.designSize.width, s.designSize.height).scaleY]
             ELSE s,
          ret |-> calculateScale(box.offsetWidth, box.offsetHeight,
                                 s.designSize.width, s.designSize.height,
                                 s.currentMode = FULLSCREEN)]

\* applyScaling: this.currentScale = this.calculateCurrentScale()
StoreScale(g) ==
    [g EXCEPT !.scaler =
        [Scaler_calculateCurrentScale(g.scaler, g.container).scaler EXCEPT
            !.currentScale = Scaler_calculateCurrentScale(g.scaler, g.container).ret]]

\* applyScaling: the style step of the current mode
StyleStep(g) ==
    IF g.scaler.currentMode = FULLSCREEN
    THEN applyFullscreenMode(g, g.scaler.currentScale, g.scaler.options,
                             g.scaler.currentScaleX, g.scaler.currentScaleY)
    ELSE applyProportionalMode(g, g.scaler.currentScale, g.scaler.options)

\* applyScaling calling onResize whenever the option is truthy
NotifyResize_Truthy(g) ==
    IF g.scaler.options.onResize # "undefined"
    THEN Call(g, g.scaler.options.onResize,
             [Event("onResize") EXCEPT
                    !.w = g.container.offsetWidth, !.h = g.container.offsetHeight,
                    !.scale = g.scaler.currentScale,
                    !.pair = IF g.scaler.currentMode = FULLSCREEN THEN "pair" ELSE "null",
                    !.x = IF g.scaler.currentMode = FULLSCREEN
                          THEN g.scaler.currentScaleX ELSE RatOne,
                    !.y = IF g.scaler.currentMode = FULLSCREEN
                          THEN g.scaler.currentScaleY ELSE RatOne])
    ELSE g

\* applyScaling: the onResize callback, its arguments read from this.container
NotifyResize(g) ==
    IF g.scaler.options.onResize = "function"
    THEN IF g.scaler.container = NULL THEN Raise(g)
         ELSE Call(g, g.scaler.options.onResize,
                 [Event("onResize") EXCEPT
                    !.w = g.container.offsetWidth, !.h = g.container.offsetHeight,
                    !.scale = g.scaler.currentScale,
                    !.pair = IF g.scaler.currentMode = FULLSCREEN THEN "pair" ELSE "null",
                    !.x = IF g.scaler.currentMode = FULLSCREEN
                          THEN g.scaler.currentScaleX ELSE RatOne,
                    !.y = IF g.scaler.currentMode = FULLSCREEN
                          THEN g.scaler.currentScaleY ELSE RatOne])
    ELSE g

\* Scaler.applyScaling calling onResize before the style step
Scaler_applyScaling_CallbackFirst(g) ==
    IF g.scaler.container = NULL \/ g.scaler.content = NULL THEN g
    ELSE The({StyleStep(g2) : g2 \in {NotifyResize(g1) : g1 \in {StoreScale(g)}}})

\* Scaler.applyScaling()
Scaler_applyScaling(g) ==
    IF g.scaler.container = NULL \/ g.scaler.content = NULL THEN g
    ELSE The({NotifyResize(g2) : g2 \in {StyleStep(g1) : g1 \in {StoreScale(g)}}})

\* refresh inverting the flag
MarkInitialized_Toggle(g) == [g EXCEPT !.scaler.isInitialized = ~@]

\* refresh: this.isInitialized = true
MarkInitialized(g) == [g EXCEPT !.scaler.isInitialized = TRUE]

\* Scaler.refresh without the test of the elements
Scaler_refresh_Unguarded(g) ==
    MarkInitialized(The({Scaler_applyScaling(g1) : g1 \in {Log(g, Event("refresh"))}}))

\* Scaler.refresh(); the call itself is logged
Scaler_refresh(g) ==
    IF g.scaler.container # NULL /\ g.scaler.content # NULL
    THEN MarkInitialized(
             The({Scaler_applyScaling(g1) : g1 \in {Log(g, Event("refresh"))}}))
    ELSE Log(g, Event("refresh"))

\* Scaler.setElements putting the Scaler back into the configured mode
Scaler_setElements_ResetMode(g, containerEl, contentEl) ==
    [g EXCEPT !.scaler.container = containerEl, !.scaler.content = contentEl,
              !.scaler.currentMode = validateMode(g.options.mode)]

\* Scaler.setElements(container, content)
Scaler_setElements(g, containerEl, contentEl) ==
    [g EXCEPT !.scaler.container = containerEl, !.scaler.content = contentEl]

\* Scaler.setDesignSize storing the size without a refresh
Scaler_setDesignSize_NoRefresh(g, width, height) ==
    IF width > 0 /\ height > 0
    THEN [g EXCEPT !.scaler.designSize = [width |-> width, height |-> height]]
    ELSE g

\* Scaler.setDesignSize accepting a size with one positive dimension
Scaler_setDesignSize_Either(g, width, height) ==
    IF width > 0 \/ height > 0
    THEN The({Scaler_refresh(g1) : g1 \in
             {[g EXCEPT !.scaler.designSize = [width |-> width, height |-> height]]}})
    ELSE g

\* Scaler.setDesignSize(width, height)
Scaler_setDesignSize(g, width, height) ==
    IF width > 0 /\ height > 0
    THEN The({Scaler_refresh(g1) : g1 \in
             {[g EXCEPT !.scaler.designSize = [width |-> width, height |-> height]]}})
    ELSE g

\* setMode: the onModeChange callback
NotifyModeChange(g) ==
    IF g.scaler.options.onModeChange = "function"
    THEN Call(g, g.scaler.options.onModeChange,
              [Event("onModeChange") EXCEPT !.mode = g.scaler.currentMode])
    ELSE g

\* Scaler.setMode calling onModeChange before it refreshes
Scaler_setMode_NotifyFirst(g, mode) ==
    IF g.scaler.currentMode # mode /\ g.scaler.isInitialized
    THEN The({Scaler_refresh(g2) : g2 \in
             {NotifyModeChange(g1) : g1 \in {[g EXCEPT !.scaler.currentMode = mode]}}})
    ELSE [g EXCEPT !.scaler.currentMode = mode]

\* Scaler.setMode notifying without the refresh
Scaler_setMode_NoRefresh(g, mode) ==
    IF g.scaler.currentMode # mode /\ g.scaler.isInitialized
    THEN NotifyModeChange([g EXCEPT !.scaler.currentMode = mode])
    ELSE [g EXCEPT !.scaler.currentMode = mode]

\* Scaler.setMode without the test of isInitialized
Scaler_setMode_Eager(g, mode) ==
    IF g.scaler.currentMode # mode
    THEN The({NotifyModeChange(g2) : g2 \in
             {Scaler_refresh(g1) : g1 \in {[g EXCEPT !.scaler.currentMode = mode]}}})
    ELSE [g EXCEPT !.scaler.currentMode = mode]

\* Scaler.setMode refreshing on the switch to fullscreen only
Scaler_setMode_OneWay(g, mode) ==
    IF g.scaler.currentMode # mode /\ g.scaler.isInitialized
    THEN The({NotifyModeChange(g2) : g2 \in
             {IF mode = FULLSCREEN THEN Scaler_refresh(g1) ELSE Log(g1, Event("refresh")) :
                 g1 \in {[g EXCEPT !.scaler.currentMode = mode]}}})
    ELSE [g EXCEPT !.scaler.currentMode = mode]

\* Scaler.setMode(mode)
Scaler_setMode(g, mode) ==
    IF g.scaler.currentMode # mode /\ g.scaler.isInitialized
    THEN The({NotifyModeChange(g2) : g2 \in
             {Scaler_refresh(g1) : g1 \in {[g EXCEPT !.scaler.currentMode = mode]}}})
    ELSE [g EXCEPT !.scaler.currentMode = mode]

\* Scaler.getMode(), Scaler.getScale()
Scaler_getMode(s) == s.currentMode
Scaler_getScale(s) == s.currentScale

(***************************************************************************)
(* Design-size resolver (detector)                                         *)
(***************************************************************************)
\* the quotient truncated instead of rounded
RoundDiv_Floor(p, q) == p \div q

\* Math.round(p / q) for q > 0
RoundDiv(p, q) == (2 * p + q) \div (2 * q)

Max(a, b) == IF a >= b THEN a ELSE b

\* a pixel quantity the model keeps integral; a fractional value is outside
\* the model and stops the check instead of being rounded silently
Integral(r) == IF r.d = 1 THEN r.n ELSE CHOOSE k \in {} : TRUE

\* detectElementSize: the extent of the wrapper's only child relative to the
\* wrapper's own rectangle, i.e. the child's box under the wrapper's transform
ChildExtent(g, size, scale) ==
    IF g.child.present
    THEN Integral(RatMul(RatInt(size),
                         IF g.content.transform.k \in {"scale", "scaleXY"}
                         THEN scale ELSE RatOne))
    ELSE 0

\* detectElementSize(content) for the wrapper element
detectElementSize(g) ==
    IF ContentOffsetWidth(g) > 0 /\ ContentOffsetHeight(g) > 0
    THEN [width |-> ContentOffsetWidth(g), height |-> ContentOffsetHeight(g)]
    ELSE IF /\ g.content.width.u # "none" /\ g.content.height.u # "none"
            /\ parseFloatLen(g.content.width) > 0 /\ parseFloatLen(g.content.height) > 0
    THEN [width |-> parseFloatLen(g.content.width),
          height |-> parseFloatLen(g.content.height)]
    ELSE [width |-> Max(ContentOffsetWidth(g),
                        ChildExtent(g, IF g.content.firstChildFill
                                       THEN ContentOffsetWidth(g) ELSE g.child.width,
                                    g.content.transform.x)),
          height |-> Max(ContentOffsetHeight(g),
                         ChildExtent(g, IF g.content.firstChildFill
                                        THEN ContentOffsetHeight(g) ELSE g.child.height,
                                     g.content.transform.y))]

\* the comparison of the container's ratio with the aspect ratio inverted
WiderThan_Inverted(width, height, aspectRatio) ==
    IF height = 0 THEN width <= 0
    ELSE width * aspectRatio.d < aspectRatio.n * height

\* containerSize.width / containerSize.height > aspectRatio, for aspectRatio > 0
\* (x / 0 is Infinity for x > 0 and NaN for x = 0)
WiderThan(width, height, aspectRatio) ==
    IF height = 0 THEN width > 0
    ELSE width * aspectRatio.d > aspectRatio.n * height

\* determineDesignSize taking any aspect ratio other than 0
determineDesignSize_SignedRatio(o, box, screen, measured) ==
    LET containerSize == IF box.present
                         THEN [width |-> box.offsetWidth, height |-> box.offsetHeight]
                         ELSE screen
    IN  IF o.designWidth > 0 /\ o.designHeight > 0
        THEN [width |-> o.designWidth, height |-> o.designHeight]
        ELSE IF o.aspectRatio.n # 0
        THEN IF WiderThan(containerSize.width, containerSize.height, o.aspectRatio)
             THEN [width |-> RoundDiv(containerSize.height * o.aspectRatio.n, o.aspectRatio.d),
                   height |-> containerSize.height]
             ELSE [width |-> containerSize.width,
                   height |-> RoundDiv(containerSize.width * o.aspectRatio.d, o.aspectRatio.n)]
        ELSE IF o.detectedWidth > 0 /\ o.detectedHeight > 0
        THEN [width |-> o.detectedWidth, height |-> o.detectedHeight]
        ELSE IF o.autoDetect /\ measured.present /\ measured.width > 0 /\ measured.height > 0
        THEN [width |-> measured.width, height |-> measured.height]
        ELSE IF box.present /\ box.offsetWidth > 0 /\ box.offsetHeight > 0
        THEN [width |-> box.offsetWidth, height |-> box.offsetHeight]
        ELSE [width |-> DEFAULT_WIDTH, height |-> DEFAULT_HEIGHT]

\* determineDesignSize returning the container's size without looking at it
determineDesignSize_AnyContainer(o, box, screen, measured) ==
    LET containerSize == IF box.present
                         THEN [width |-> box.offsetWidth, height |-> box.offsetHeight]
                         ELSE screen
    IN  IF o.designWidth > 0 /\ o.designHeight > 0
        THEN [width |-> o.designWidth, height |-> o.designHeight]
        ELSE IF o.aspectRatio.n > 0
        THEN IF WiderThan(containerSize.width, containerSize.height, o.aspectRatio)
             THEN [width |-> RoundDiv(containerSize.height * o.aspectRatio.n, o.aspectRatio.d),
                   height |-> containerSize.height]
             ELSE [width |-> containerSize.width,
                   height |-> RoundDiv(containerSize.width * o.aspectRatio.d, o.aspectRatio.n)]
        ELSE IF o.detectedWidth > 0 /\ o.detectedHeight > 0
        THEN [width |-> o.detectedWidth, height |-> o.detectedHeight]
        ELSE IF o.autoDetect /\ measured.present /\ measured.width > 0 /\ measured.height > 0
        THEN [width |-> measured.width, height |-> measured.height]
        ELSE IF box.present
        THEN [width |-> box.offsetWidth, height |-> box.offsetHeight]
        ELSE [width |-> DEFAULT_WIDTH, height |-> DEFAULT_HEIGHT]

\* determineDesignSize(options, container, content).  box is the container:
\* present, offsetWidth, offsetHeight; screen is detectScreenSize(); measured
\* is detectElementSize(content), with present = FALSE when content is absent.
\* A design dimension or ratio of 0 stands for an absent or falsy option.
determineDesignSize(o, box, screen, measured) ==
    LET containerSize == IF box.present
                         THEN [width |-> box.offsetWidth, height |-> box.offsetHeight]
                         ELSE screen
    IN  IF o.designWidth > 0 /\ o.designHeight > 0
        THEN [width |-> o.designWidth, height |-> o.designHeight]
        ELSE IF o.aspectRatio.n > 0
        THEN IF WiderThan(containerSize.width, containerSize.height, o.aspectRatio)
             THEN [width |-> RoundDiv(containerSize.height * o.aspectRatio.n, o.aspectRatio.d),
                   height |-> containerSize.height]
             ELSE [width |-> containerSize.width,
                   height |-> RoundDiv(containerSize.width * o.aspectRatio.d, o.aspectRatio.n)]
        ELSE IF o.detectedWidth > 0 /\ o.detectedHeight > 0
        THEN [width |-> o.detectedWidth, height |-> o.detectedHeight]
        ELSE IF o.autoDetect /\ measured.present /\ measured.width > 0 /\ measured.height > 0
        THEN [width |-> measured.width, height |-> measured.height]
        ELSE IF box.present /\ box.offsetWidth > 0 /\ box.offsetHeight > 0
        THEN [width |-> box.offsetWidth, height |-> box.offsetHeight]
        ELSE [width |-> DEFAULT_WIDTH, height |-> DEFAULT_HEIGHT]

(***************************************************************************)
(* Helpers                                                                 *)
(***************************************************************************)
\* getElement(selector): the one container of the page, or null
getElement(selector) == IF selector = "#container" THEN "container" ELSE NULL

\* debounce without the clearTimeout
debounce_NoClear(pending, wait) == Append(pending, wait)

\* the function debounce(func, wait) returns, called: clearTimeout of the
\* pending timer, then setTimeout(..., wait)
debounce(pending, wait) == <<wait>>

\* NaN: the result of 0 / 0
NaN == [n |-> 0, d |-> 0]

Digits == <<"0","1","2","3","4","5","6","7","8","9">>
IsDigit(c) == \E k \in DOMAIN Digits : Digits[k] = c

\* the number a sequence of digits spells
RECURSIVE DigitsVal(_)
DigitsVal(ds) ==
    IF ds = <<>> THEN 0
    ELSE 10 * DigitsVal(SubSeq(ds, 1, Len(ds) - 1))
         + (CHOOSE k \in DOMAIN Digits : Digits[k] = ds[Len(ds)]) - 1

RECURSIVE Pow10(_)
Pow10(n) == IF n <= 0 THEN 1 ELSE 10 * Pow10(n - 1)

\* how many digits follow one another from position p of chars
DigitRun(chars, p) ==
    CHOOSE k \in 0..Len(chars) :
        /\ \A i \in p..(p + k - 1) : i <= Len(chars) /\ IsDigit(chars[i])
        /\ p + k > Len(chars) \/ ~IsDigit(chars[p + k])

\* the position of the first character of chars that is no space
SkipSpaces(chars) ==
    CHOOSE p \in 1..(Len(chars) + 1) :
        /\ \A i \in 1..(p - 1) : chars[i] = " "
        /\ p > Len(chars) \/ chars[p] # " "

\* parseFloat(string) for strings without exponent and without 'Infinity':
\* leading spaces, a sign, digits, a point and digits are read, whatever
\* follows is ignored; at and len are where the digits start and how many
\* integer digits, whether a point and how many fraction digits were read
Numeral(chars) ==
    Only({Only({[at |-> p, int |-> ni,
                 point |-> p + ni <= Len(chars) /\ chars[p + ni] = ".",
                 frac |-> IF p + ni <= Len(chars) /\ chars[p + ni] = "."
                          THEN DigitRun(chars, p + ni + 1) ELSE 0,
                 negative |-> p > 1 /\ chars[p - 1] = "-"] : ni \in {DigitRun(chars, p)}}) :
             p \in {IF /\ SkipSpaces(chars) <= Len(chars)
                       /\ chars[SkipSpaces(chars)] \in {"-", "+"}
                    THEN SkipSpaces(chars) + 1 ELSE SkipSpaces(chars)}})

parseFloat(chars) ==
    Only({IF m.int + m.frac = 0 THEN NaN
          ELSE Rat((IF m.negative THEN -1 ELSE 1)
                   * (DigitsVal(SubSeq(chars, m.at, m.at + m.int - 1)) * Pow10(m.frac)
                      + DigitsVal(SubSeq(chars, m.at + m.int + 1, m.at + m.int + m.frac))),
                   Pow10(m.frac)) : m \in {Numeral(chars)}})

\* the positions of the separator in a string
Colons(chars) == {i \in DOMAIN chars : chars[i] = ":"}

\* ratio.split(':') when it has two parts
Halves(chars) ==
    Only({<<SubSeq(chars, 1, c - 1), SubSeq(chars, c + 1, Len(chars))>> :
             c \in {CHOOSE c \in Colons(chars) : TRUE}})

\* a JS number with the value r
JsRatio(r) == [t |-> "number", v |-> r]

\* parseAspectRatio accepting a ratio with a zero height
parseAspectRatio_ZeroHeight(ratio) ==
    IF Falsy(ratio) \/ ratio.t # "string" THEN JsNull
    ELSE IF Cardinality(Colons(ratio.v)) # 1 THEN JsNull
    ELSE Only({IF width = NaN \/ height = NaN THEN JsNull
               ELSE JsRatio(Rat(width.n * height.d, width.d * height.n)) :
                  width \in {parseFloat(Halves(ratio.v)[1])},
                  height \in {parseFloat(Halves(ratio.v)[2])}})

\* parseAspectRatio(ratio)
parseAspectRatio(ratio) ==
    IF Falsy(ratio) \/ ratio.t # "string" THEN JsNull
    ELSE IF Cardinality(Colons(ratio.v)) # 1 THEN JsNull
    ELSE Only({IF width = NaN \/ height = NaN \/ height.n = 0 THEN JsNull
               ELSE JsRatio(Rat(width.n * height.d, width.d * height.n)) :
                  width \in {parseFloat(Halves(ratio.v)[1])},
                  height \in {parseFloat(Halves(ratio.v)[2])}})

(***************************************************************************)
(* FitScreenJS                                                             *)
(***************************************************************************)
\* applyTo: the computed size of the container's first child, which is the
\* wrapper once the container has been wrapped
ComputedOriginal(g) ==
    IF g.wrapped
    THEN [width |-> ContentOffsetWidth(g), height |-> ContentOffsetHeight(g)]
    ELSE IF g.child.present
    THEN [width |-> g.child.width, height |-> g.child.height]
    ELSE [width |-> 0, height |-> 0]

\* applyTo: originalSize, the computed size overridden by the inline width and
\* height when both are set (the wrapper carries them; the page's own child is
\* taken to carry none)
MeasureOriginal(g) ==
    IF g.wrapped /\ g.content.width.u # "none" /\ g.content.height.u # "none"
    THEN [width |-> IF parseFloatLen(g.content.width) # 0
                    THEN parseFloatLen(g.content.width) ELSE ComputedOriginal(g).width,
          height |-> IF parseFloatLen(g.content.height) # 0
                     THEN parseFloatLen(g.content.height) ELSE ComputedOriginal(g).height]
    ELSE ComputedOriginal(g)

\* FitScreenJS.refresh taking the container's size as the design size
FitScreenJS_refresh_Adopt(g) ==
    Scaler_refresh([g EXCEPT !.scaler.designSize =
                       [width |-> g.container.offsetWidth,
                        height |-> g.container.offsetHeight]])

\* FitScreenJS.refresh()
FitScreenJS_refresh(g) == Scaler_refresh(g)

\* applyTo: the container's own style, written through the reference el
StyleBoundContainer(g, el) ==
    IF el = NULL THEN Raise(g)
    ELSE [g EXCEPT !.container.style =
             [@ EXCEPT !.width = CssPct(100), !.height = CssPct(100),
                       !.overflow = "hidden", !.position = "relative"]]

\* applyTo: create the wrapper unless the container has one
WrapContent(g) ==
    IF g.wrapped THEN g ELSE [g EXCEPT !.wrapped = TRUE, !.content = NewContent]

\* applyTo: the wrapper's style for the configured mode
StyleContent(g, originalSize) ==
    IF validateMode(g.options.mode) = FULLSCREEN
    THEN [g EXCEPT
            !.content.position = "absolute",
            !.content.width = CssPct(100),
            !.content.height = CssPct(100),
            !.content.transform = TransformNone,
            !.content.originalWidth =
                IF originalSize.width > 0 /\ originalSize.height > 0
                THEN CssNum(originalSize.width) ELSE @,
            !.content.originalHeight =
                IF originalSize.width > 0 /\ originalSize.height > 0
                THEN CssNum(originalSize.height) ELSE @]
    ELSE IF originalSize.width > 0 /\ originalSize.height > 0
    THEN [g EXCEPT !.content.width = CssPx(originalSize.width),
                   !.content.height = CssPx(originalSize.height)]
    ELSE g

\* applyTo: options.detectedWidth / detectedHeight
RecordDetected(g, originalSize) ==
    [g EXCEPT !.options.detectedWidth = originalSize.width,
              !.options.detectedHeight = originalSize.height]

\* applyTo: determineDesignSize(this.options, container, content); the screen
\* size is not read, the container being present
ResolveDesignSize(g) ==
    determineDesignSize(g.options,
        [present |-> TRUE, offsetWidth |-> g.container.offsetWidth,
         offsetHeight |-> g.container.offsetHeight],
        [width |-> 0, height |-> 0],
        IF g.options.autoDetect
        THEN [present |-> TRUE, width |-> detectElementSize(g).width,
              height |-> detectElementSize(g).height]
        ELSE [present |-> TRUE, width |-> 0, height |-> 0])

\* applyTo registering a handler on every call
RegisterListener_Always(g) ==
    Log([g EXCEPT !.listening = TRUE, !.added = @ + 1, !.isInitialized = TRUE],
        Event("addEventListener"))

\* applyTo: register the debounced resize handler, once
RegisterListener(g) ==
    IF ~g.isInitialized
    THEN Log([g EXCEPT !.listening = TRUE, !.added = @ + 1, !.isInitialized = TRUE],
             Event("addEventListener"))
    ELSE g

\* applyTo: the design size resolved and handed to the Scaler
ApplyDesignSize(g) ==
    Scaler_setDesignSize(g, ResolveDesignSize(g).width, ResolveDesignSize(g).height)

\* applyTo, from the measurement on
ApplyMeasured(g, el, originalSize) ==
    The({FitScreenJS_refresh(g6) : g6 \in
        {RegisterListener(g5) : g5 \in
        {ApplyDesignSize(g4) : g4 \in
        {Scaler_setElements(g3, el, "content") : g3 \in
        {RecordDetected(g2, originalSize) : g2 \in
        {StyleContent(g1, originalSize) : g1 \in
        {WrapContent(g)}}}}}}})

\* FitScreenJS.applyTo registering the resize listener before it looks for the
\* container
FitScreenJS_applyTo_ListenFirst(g, containerSelector) ==
    IF getElement(containerSelector) = NULL
    THEN Log(RegisterListener(g), Event("console.error"))
    ELSE The({ApplyMeasured(g1, getElement(containerSelector), MeasureOriginal(g1)) :
                 g1 \in {StyleBoundContainer(g, getElement(containerSelector))}})

\* FitScreenJS.applyTo(containerSelector)
FitScreenJS_applyTo(g, containerSelector) ==
    IF getElement(containerSelector) = NULL THEN Log(g, Event("console.error"))
    ELSE The({ApplyMeasured(g1, getElement(containerSelector), MeasureOriginal(g1)) :
                 g1 \in {StyleBoundContainer(g, getElement(containerSelector))}})

\* FitScreenJS.getMode(), FitScreenJS.getScale()
getMode == Scaler_getMode(scaler)
getScale == Scaler_getScale(scaler)

\* setMode: the wrapper stretched for the switch to fullscreen, its size saved
\* in the dataset unless one is saved already
ToFullscreenStyle(g) ==
    IF g.scaler.content = NULL THEN Raise(g) ELSE
    [g EXCEPT
        !.content.originalWidth =
            IF g.content.originalWidth.u = "none" /\ g.content.originalHeight.u = "none"
            THEN (IF g.content.width.u # "none" THEN g.content.width
                  ELSE CssNum(ContentOffsetWidth(g)))
            ELSE @,
        !.content.originalHeight =
            IF g.content.originalWidth.u = "none" /\ g.content.originalHeight.u = "none"
            THEN (IF g.content.height.u # "none" THEN g.content.height
                  ELSE CssNum(ContentOffsetHeight(g)))
            ELSE @,
        !.content.position = "absolute",
        !.content.width = CssPct(100),
        !.content.height = CssPct(100),
        !.content.transform = TransformNone]

\* setMode: the size given back to the wrapper on the switch from fullscreen
RestoredSize(g) ==
    IF g.content.originalWidth.u # "none" /\ g.content.originalHeight.u # "none"
    THEN [width |-> parseFloatLen(g.content.originalWidth),
          height |-> parseFloatLen(g.content.originalHeight)]
    ELSE g.scaler.designSize

\* setMode: the wrapper restored for the switch to proportional
ToProportionalStyle(g) ==
    IF g.scaler.content = NULL THEN Raise(g)
    ELSE IF RestoredSize(g).width > 0 /\ RestoredSize(g).height > 0
    THEN [g EXCEPT !.content.width = CssPx(RestoredSize(g).width),
                   !.content.height = CssPx(RestoredSize(g).height)]
    ELSE g

\* setMode: the restyling of the wrapper when the mode changes
RestyleForMode(g, previousMode, validMode) ==
    IF previousMode # validMode /\ g.scaler.content # NULL
    THEN (IF validMode = FULLSCREEN THEN ToFullscreenStyle(g)
          ELSE IF previousMode = FULLSCREEN THEN ToProportionalStyle(g)
          ELSE g)
    ELSE g

\* setMode: this.scaler.options.preserveChildStyles = true
KeepChildStyles(g) == [g EXCEPT !.scaler.options.preserveChildStyles = "true"]

\* FitScreenJS.setMode handing the mode on as given
FitScreenJS_setMode_Raw(g, mode) ==
    The({Scaler_setMode(g1, mode) : g1 \in
        {KeepChildStyles(RestyleForMode(g, Scaler_getMode(g.scaler), validateMode(mode)))}})

\* FitScreenJS.setMode(mode)
FitScreenJS_setMode(g, mode) ==
    The({Scaler_setMode(g1, validateMode(mode)) : g1 \in
        {KeepChildStyles(RestyleForMode(g, Scaler_getMode(g.scaler), validateMode(mode)))}})

\* FitScreenJS.setDesignSize(width, height)
FitScreenJS_setDesignSize(g, width, height) == Scaler_setDesignSize(g, width, height)

\* FitScreenJS.destroy without the test of isInitialized
FitScreenJS_destroy_Unbound(g) ==
    IF ~g.isDestroyed
    THEN Log([g EXCEPT !.listening = FALSE, !.removed = @ + 1, !.isDestroyed = TRUE],
             Event("removeEventListener"))
    ELSE g

\* FitScreenJS.destroy without the test of isDestroyed
FitScreenJS_destroy_Unguarded(g) ==
    IF g.isInitialized
    THEN Log([g EXCEPT !.listening = FALSE, !.removed = @ + 1, !.isDestroyed = TRUE],
             Event("removeEventListener"))
    ELSE g

\* FitScreenJS.destroy()
FitScreenJS_destroy(g) ==
    IF g.isInitialized /\ ~g.isDestroyed
    THEN Log([g EXCEPT !.listening = FALSE, !.removed = @ + 1, !.isDestroyed = TRUE],
             Event("removeEventListener"))
    ELSE g

\* the debounced function without its test
ResizeCallback_Always(g) == FitScreenJS_refresh(g)

\* the debounced function with its test inverted
ResizeCallback_Inverted(g) == IF g.isDestroyed THEN FitScreenJS_refresh(g) ELSE g

\* the function applyTo passes to debounce: if (!this.isDestroyed) this.refresh()
ResizeCallback(g) == IF ~g.isDestroyed THEN FitScreenJS_refresh(g) ELSE g

\* the aspectRatio option after _normalizeOptions: a non-empty string is
\* replaced by what parseAspectRatio makes of it, any other value is kept
normalizeAspectRatio(value) ==
    IF value.t = "string" /\ value.v # <<>> THEN parseAspectRatio(value) ELSE value

\* the aspectRatio determineDesignSize works with: the value of a number, and
\* 0 for a value whose typeof is not 'number'
AspectRatioNumber(value) ==
    IF value.t = "number" THEN value.v ELSE RatInt(0)

(***************************************************************************)
(* Configurations and inputs                                               *)
(***************************************************************************)
Min(a, b) == IF a <= b THEN a ELSE b

\* new FitScreenJS() without options
DefaultConfig ==
    [mode |-> JsUndefined, designWidth |-> 0, designHeight |-> 0,
     aspectRatio |-> RatInt(0), autoDetect |-> FALSE,
     onResize |-> "function", onModeChange |-> "function",
     scaleContent |-> "undefined", centerContent |-> "undefined",
     backgroundColor |-> "null", useTransform |-> "undefined",
     preserveChildStyles |-> "undefined", container |-> NULL]

MixedCaseFullscreen == JsString(<<"F","u","l","l","S","c","r","e","e","n">>)
UnknownMode == JsString(<<"c","o","v","e","r">>)

\* the configurations instances are constructed with
Configs ==
    { DefaultConfig,
      [DefaultConfig EXCEPT !.mode = MixedCaseFullscreen, !.container = "#container"],
      [DefaultConfig EXCEPT !.mode = UnknownMode,
                            !.onResize = "undefined", !.onModeChange = "undefined"],
      [DefaultConfig EXCEPT !.mode = FULLSCREEN,
                            !.designWidth = MaxDim, !.designHeight = 1],
      [DefaultConfig EXCEPT !.aspectRatio = Rat(2, 1),
                            !.onResize = "string", !.onModeChange = "object"] }

\* arguments given to setMode
ModeInputs ==
    { JsUndefined, JsNull, JsNumber(<<"1","2","3">>), JsString(<<>>),
      PROPORTIONAL, FULLSCREEN, MixedCaseFullscreen, UnknownMode }

\* arguments given to setDesignSize
DesignInputs ==
    { <<1, 1>>, <<0, 1>>, <<1, -1>> }

\* sizes the container takes
ViewportSizes == { <<MaxDim, 1>>, <<0, 1>> }

\* the size of the container's first child before binding
ChildSizes == { <<MaxDim, 1>> }

\* arguments given to applyTo
Selectors == { "#container", "#missing", NULL }

\* _normalizeOptions(options) for the configurations, which give the ratio as a
\* number or not at all (0); normalizeAspectRatio is what it does to any
\* aspectRatio, a string included
normalizeOptions(cfg) ==
    [mode |-> cfg.mode, designWidth |-> cfg.designWidth,
     designHeight |-> cfg.designHeight, aspectRatio |-> cfg.aspectRatio,
     autoDetect |-> cfg.autoDetect, detectedWidth |-> 0, detectedHeight |-> 0,
     preserveChildStyles |-> cfg.preserveChildStyles,
     container |-> cfg.container]

\* new Scaler(options)
NewScaler(o) ==
    [options |-> o, container |-> NULL, content |-> NULL,
     designSize |-> [width |-> 0, height |-> 0],
     currentScale |-> RatOne, currentScaleX |-> RatOne, currentScaleY |-> RatOne,
     currentMode |-> IF Falsy(o.mode) THEN PROPORTIONAL ELSE o.mode,
     isInitialized |-> FALSE]

\* the constructor before it applies itself to options.container
Constructed(cfg, vp, ch) ==
    [options |-> normalizeOptions(cfg),
     scaler |-> NewScaler(
         [mode |-> validateMode(cfg.mode),
          onResize |-> cfg.onResize, onModeChange |-> cfg.onModeChange,
          scaleContent |-> cfg.scaleContent, centerContent |-> cfg.centerContent,
          backgroundColor |-> cfg.backgroundColor,
          useTransform |-> cfg.useTransform,
          preserveChildStyles |-> cfg.preserveChildStyles]),
     isInitialized |-> FALSE, isDestroyed |-> FALSE,
     listening |-> FALSE, added |-> 0, removed |-> 0, timeouts |-> <<>>,
     container |-> [offsetWidth |-> vp[1], offsetHeight |-> vp[2],
                    style |-> NewContainerStyle],
     wrapped |-> FALSE, content |-> NewContent, child |-> ch, calls |-> <<>>]

\* new FitScreenJS(cfg) on a page whose container has size vp and first child ch
Construct(cfg, vp, ch) ==
    IF cfg.container # NULL
    THEN FitScreenJS_applyTo(Constructed(cfg, vp, ch), cfg.container)
    ELSE Constructed(cfg, vp, ch)

\* the operation last performed and the argument it was given
Op(name, arg) == [name |-> name, arg |-> arg]

\* the variables hold the world g
Holds(g) ==
    /\ options = g.options /\ scaler = g.scaler
    /\ isInitialized = g.isInitialized /\ isDestroyed = g.isDestroyed
    /\ listening = g.listening /\ added = g.added /\ removed = g.removed
    /\ timeouts = g.timeouts /\ container = g.container
    /\ wrapped = g.wrapped /\ content = g.content /\ child = g.child
    /\ calls = g.calls

\* the state after new FitScreenJS(cfg), for the configurations cfgs
InitOf(cfgs) ==
    \E cfg \in cfgs, vp \in {<<MaxDim, 1>>}, c \in ChildSizes :
        /\ Holds(Construct(cfg, vp, [present |-> TRUE, width |-> c[1], height |-> c[2]]))
        /\ op = Op("new", NULL)
        /\ sinceCall = <<>> /\ invoked = 0
        /\ before = <<>>
        /\ other = <<>>

\* determineDesignSize is not under study
Idle == asked = <<>> /\ resolved = <<>>

Init == InitOf(Configs) /\ Idle

\* what getScale() and the design size were when setMode began the switch from
\* proportional to fullscreen on an initialized Scaler, remembered until the
\* step after the switch back
Remember(o) ==
    IF /\ o.name = "setMode" /\ validateMode(o.arg) = FULLSCREEN
       /\ scaler.currentMode = PROPORTIONAL /\ scaler.isInitialized
    THEN <<[designSize |-> scaler.designSize, scale |-> scaler.currentScale,
            width |-> container.offsetWidth, height |-> container.offsetHeight]>>
    ELSE IF /\ o.name = "setMode" /\ validateMode(o.arg) = PROPORTIONAL
            /\ op.name = "setMode" /\ scaler.currentMode = FULLSCREEN
            /\ before # <<>>
    THEN before
    ELSE <<>>

\* the world after an API call, with the debounce history left alone
Commit(g, o) ==
    /\ before' = Remember(o)
    /\ UNCHANGED <<asked, resolved, other>>
    /\ options' = g.options /\ scaler' = g.scaler
    /\ isInitialized' = g.isInitialized /\ isDestroyed' = g.isDestroyed
    /\ listening' = g.listening /\ added' = Min(g.added, 3) /\ removed' = Min(g.removed, 3)
    /\ timeouts' = g.timeouts /\ container' = g.container
    /\ wrapped' = g.wrapped /\ content' = g.content /\ child' = g.child
    /\ calls' = g.calls /\ op' = o

(***************************************************************************)
(* Actions                                                                 *)
(***************************************************************************)
\* each action computes the world after the call once and commits it
ApplyTo(sel) ==
    /\ \E g \in {FitScreenJS_applyTo(World, sel)} : Commit(g, Op("applyTo", sel))
    /\ UNCHANGED <<sinceCall, invoked>>

SetMode(mode) ==
    /\ \E g \in {FitScreenJS_setMode(World, mode)} : Commit(g, Op("setMode", mode))
    /\ UNCHANGED <<sinceCall, invoked>>

SetDesignSize(width, height) ==
    /\ \E g \in {FitScreenJS_setDesignSize(World, width, height)} :
           Commit(g, Op("setDesignSize", <<width, height>>))
    /\ UNCHANGED <<sinceCall, invoked>>

Refresh ==
    /\ \E g \in {FitScreenJS_refresh(World)} : Commit(g, Op("refresh", NULL))
    /\ UNCHANGED <<sinceCall, invoked>>

Destroy ==
    /\ \E g \in {FitScreenJS_destroy(World)} : Commit(g, Op("destroy", NULL))
    /\ UNCHANGED <<sinceCall, invoked>>

\* the container takes the size vp
Resized(g, vp) ==
    [g EXCEPT !.container.offsetWidth = vp[1], !.container.offsetHeight = vp[2]]

\* the container takes the size vp and the window dispatches 'resize' to its
\* listeners: the debounced handler, when registered
WindowResize(vp) ==
    IF listening
    THEN /\ \E g \in {[Resized(World, vp) EXCEPT
                          !.timeouts = debounce(@, RESIZE_WAIT)]} :
                Commit(g, Op("resize", NULL))
         /\ sinceCall' = <<0>>
         /\ invoked' = 0
    ELSE /\ \E g \in {Resized(World, vp)} : Commit(g, Op("resize", NULL))
         /\ UNCHANGED <<sinceCall, invoked>>

\* time passes, while no timer is due
Tick ==
    /\ timeouts # <<>>
    /\ \A i \in DOMAIN timeouts : timeouts[i] > 0
    /\ \E g \in {[World EXCEPT !.timeouts =
                     [i \in DOMAIN timeouts |-> Max(0, timeouts[i] - TickStep)]]} :
           Commit(g, Op("tick", NULL))
    /\ sinceCall' = IF sinceCall = <<>> THEN <<>>
                    ELSE <<Min(RESIZE_WAIT, sinceCall[1] + TickStep)>>
    /\ UNCHANGED invoked

\* a due timer of the debounced handler runs the function it wraps
TimerFire ==
    /\ timeouts # <<>>
    /\ Head(timeouts) = 0
    /\ \E g \in {ResizeCallback([World EXCEPT !.timeouts = Tail(@)])} :
           Commit(g, Op("timer", NULL))
    /\ invoked' = Min(invoked + 1, 2)
    /\ UNCHANGED sinceCall

\* a resize followed by quiescence: the container takes the size vp, the
\* window dispatches 'resize', and the debounced handler's timer runs out and
\* fires before anything else happens
ResizeSettled(vp) ==
    /\ timeouts = <<>>
    /\ IF listening
       THEN /\ \E g \in {ResizeCallback([Resized(World, vp) EXCEPT
                            !.timeouts = Tail(debounce(@, RESIZE_WAIT))])} :
                   Commit(g, Op("resizeSettled", NULL))
            /\ sinceCall' = <<RESIZE_WAIT>>
            /\ invoked' = 1
       ELSE /\ \E g \in {Resized(World, vp)} : Commit(g, Op("resizeSettled", NULL))
            /\ UNCHANGED <<sinceCall, invoked>>

Next ==
    \/ \E sel \in Selectors : ApplyTo(sel)
    \/ \E mode \in ModeInputs : SetMode(mode)
    \/ \E d \in DesignInputs : SetDesignSize(d[1], d[2])
    \/ Refresh
    \/ Destroy
    \/ \E vp \in ViewportSizes : ResizeSettled(vp)

Spec == Init /\ [][Next]_vars

\* the instance with time made explicit: resize events, the passing of time
\* and the debounce timer are separate steps
InitTimed ==
    InitOf({c \in Configs : c.mode \in {JsUndefined, FULLSCREEN}}) /\ Idle

NextTimed ==
    \/ ApplyTo("#container")
    \/ \E mode \in {PROPORTIONAL, FULLSCREEN} : SetMode(mode)
    \/ Destroy
    \/ \E vp \in ViewportSizes : WindowResize(vp)
    \/ Tick
    \/ TimerFire

SpecTimed ==
    InitTimed /\ [][NextTimed]_vars /\ WF_vars(Tick) /\ WF_vars(TimerFire)

(***************************************************************************)
(* Instances configured with preserveChildStyles: false                    *)
(***************************************************************************)
\* the default and the fullscreen configuration, each with the option false
ChildConfigs ==
    { [DefaultConfig EXCEPT !.preserveChildStyles = "false"],
      [DefaultConfig EXCEPT !.mode = FULLSCREEN, !.preserveChildStyles = "false"] }

InitChild == InitOf(ChildConfigs) /\ Idle

NextChild ==
    \/ ApplyTo("#container")
    \/ \E mode \in {PROPORTIONAL, FULLSCREEN} : SetMode(mode)
    \/ Refresh
    \/ \E vp \in ViewportSizes : ResizeSettled(vp)

SpecChild == InitChild /\ [][NextChild]_vars

(***************************************************************************)
(* applyTo called again: instances without a configured design size, so    *)
(* that the design size is the one applyTo measures, on a container that   *)
(* is smaller than its first child.                                        *)
(***************************************************************************)
AgainConfigs ==
    { DefaultConfig, [DefaultConfig EXCEPT !.mode = FULLSCREEN] }

\* sizes the container takes
AgainViewports == { <<1, 1>>, <<MaxDim, 1>> }

InitAgain ==
    /\ \E cfg \in AgainConfigs :
           Holds(Construct(cfg, <<1, 1>>, [present |-> TRUE, width |-> MaxDim, height |-> 1]))
    /\ op = Op("new", NULL)
    /\ sinceCall = <<>> /\ invoked = 0
    /\ before = <<>>
    /\ other = <<>>
    /\ Idle

NextAgain ==
    \/ ApplyTo("#container")
    \/ \E mode \in {PROPORTIONAL, FULLSCREEN} : SetMode(mode)
    \/ Refresh
    \/ Destroy
    \/ \E vp \in AgainViewports : ResizeSettled(vp)

SpecAgain == InitAgain /\ [][NextAgain]_vars

(***************************************************************************)
(* Two instances on one page, each bound to a container of its own.  The   *)
(* variables hold the first; other holds <<[peer |-> the second,           *)
(* alone |-> the first as it would be on a page without the second,        *)
(* given |-> the options object each was constructed from]>>; the calls    *)
(* the operations make are not kept.  What two                             *)
(* instances can share is an object both hold a reference to: the options  *)
(* object, the Scaler's options object, the handler registered with the    *)
(* window.                                                                 *)
(***************************************************************************)
\* { ...object } yielding the object itself
Spread_Alias(object, fresh) == object

\* the object { ...object } evaluates to: a new one
Spread(object, fresh) == fresh

\* this.options = this._normalizeOptions(options) of the instance who
OptionsObject(given, who) == Spread(given, <<who, "options">>)

\* the Scaler's this.options: { ...this.options, mode }
ScalerOptionsObject(given, who) ==
    Spread(OptionsObject(given, who), <<who, "scaler.options">>)

\* one handler function for every instance
ResizeHandler_Module(who) == <<"module", "_resizeHandler">>

\* this._resizeHandler: the function debounce returns for the instance who
ResizeHandler(who) == <<who, "_resizeHandler">>

\* the world h of the instance to after the instance from has reached the
\* world g: what both hold a reference to has changed for both
Through(g, from, h, to, given) ==
    [h EXCEPT
        !.options = IF OptionsObject(given[from], from) = OptionsObject(given[to], to)
                    THEN g.options ELSE @,
        !.scaler.options =
            IF ScalerOptionsObject(given[from], from) = ScalerOptionsObject(given[to], to)
            THEN g.scaler.options ELSE @,
        !.listening = IF ResizeHandler(from) = ResizeHandler(to) THEN g.listening ELSE @]

\* the configurations of the two instances
PairConfigs == { DefaultConfig }

\* the size a container takes when the window is resized
PairViewports == { <<1, 1>> }

\* the options objects handed to the two constructors: one object, or two
GivenObjects ==
    { [this |-> <<"options", "first">>, peer |-> <<"options", "first">>],
      [this |-> <<"options", "first">>, peer |-> <<"options", "second">>] }

InitPair ==
    /\ \E cfg \in PairConfigs, c \in ChildSizes :
           Holds(Construct(cfg, <<MaxDim, 1>>,
                           [present |-> TRUE, width |-> c[1], height |-> c[2]]))
    /\ op = Op("new", NULL)
    /\ sinceCall = <<>> /\ invoked = 0
    /\ before = <<>>
    /\ Idle
    /\ \E cfg \in PairConfigs, c \in ChildSizes, given \in GivenObjects :
           /\ given.this = given.peer => normalizeOptions(cfg) = options
           /\ other = <<[peer |-> [Construct(cfg, <<1, 1>>,
                                  [present |-> TRUE, width |-> c[1], height |-> c[2]])
                                      EXCEPT !.calls = <<>>],
                         alone |-> [World EXCEPT !.calls = <<>>],
                         given |-> given]>>

\* the container takes the size vp, the window dispatches 'resize' and the
\* instance's debounced handler, when registered, runs its function
Settle(g, vp) ==
    IF g.listening THEN ResizeCallback(Resized(g, vp)) ELSE Resized(g, vp)

\* the operation name with the argument arg on the instance in the world g
Perform(g, name, arg) ==
    CASE name = "applyTo" -> FitScreenJS_applyTo(g, arg)
      [] name = "setMode" -> FitScreenJS_setMode(g, arg)
      [] name = "setDesignSize" -> FitScreenJS_setDesignSize(g, arg[1], arg[2])
      [] name = "refresh" -> FitScreenJS_refresh(g)
      [] name = "destroy" -> FitScreenJS_destroy(g)
      [] name = "resized" -> Settle(g, arg)

\* the first instance is in the world g, the pair in p, after an operation on
\* the instance who
CommitPair(g, p, who) ==
    /\ options' = g.options /\ scaler' = g.scaler
    /\ isInitialized' = g.isInitialized /\ isDestroyed' = g.isDestroyed
    /\ listening' = g.listening /\ added' = Min(g.added, 3) /\ removed' = Min(g.removed, 3)
    /\ timeouts' = g.timeouts /\ container' = g.container
    /\ wrapped' = g.wrapped /\ content' = g.content /\ child' = g.child
    /\ calls' = <<>> /\ op' = Op(who, NULL)
    /\ other' = <<p>>
    /\ UNCHANGED <<sinceCall, invoked, before, asked, resolved>>

\* an operation on the first instance
ThisCall(name, arg) ==
    \E g \in {Perform(World, name, arg)},
       a \in {Perform(other[1].alone, name, arg)} :
        CommitPair(g, [other[1] EXCEPT
                          !.alone = [a EXCEPT !.calls = <<>>],
                          !.peer = Through(g, "this", @, "peer", other[1].given)],
                   "this")

\* an operation on the second instance
PeerCall(name, arg) ==
    \E h \in {Perform(other[1].peer, name, arg)} :
        CommitPair(Through(h, "peer", World, "this", other[1].given),
                   [other[1] EXCEPT !.peer = [h EXCEPT !.calls = <<>>]],
                   "peer")

NextPair ==
    \/ ThisCall("applyTo", "#container") \/ PeerCall("applyTo", "#container")
    \/ \E mode \in {PROPORTIONAL, FULLSCREEN} :
           ThisCall("setMode", mode) \/ PeerCall("setMode", mode)
    \/ ThisCall("setDesignSize", <<1, 1>>) \/ PeerCall("setDesignSize", <<1, 1>>)
    \/ ThisCall("refresh", NULL) \/ PeerCall("refresh", NULL)
    \/ ThisCall("destroy", NULL) \/ PeerCall("destroy", NULL)
    \/ \E vp \in PairViewports : ThisCall("resized", vp) \/ PeerCall("resized", vp)

SpecPair == InitPair /\ [][NextPair]_vars

(***************************************************************************)
(* Binding on its own: any container and any first child                   *)
(***************************************************************************)
\* configurations without designWidth, designHeight, aspectRatio or autoDetect
BindConfigs ==
    { DefaultConfig,
      [DefaultConfig EXCEPT !.mode = FULLSCREEN],
      [DefaultConfig EXCEPT !.mode = UnknownMode, !.onResize = "undefined"] }

\* the container's size: positive on both axes
BindViewports == { <<w, h>> : w \in 1..MaxDim, h \in 1..MaxDim }

\* the container's first child: none, or one of each size
BindChildren ==
    {[present |-> FALSE, width |-> 0, height |-> 0]}
    \cup {[present |-> TRUE, width |-> w, height |-> h] :
              w \in 1..MaxDim, h \in 1..MaxDim}

InitBind ==
    /\ \E cfg \in BindConfigs, vp \in BindViewports, ch \in BindChildren :
           Holds(Construct(cfg, vp, ch))
    /\ op = Op("new", NULL)
    /\ sinceCall = <<>> /\ invoked = 0
    /\ before = <<>>
    /\ Idle
    /\ other = <<>>

NextBind == \E sel \in Selectors : ApplyTo(sel)

SpecBind == InitBind /\ [][NextBind]_vars

(***************************************************************************)
(* determineDesignSize on its own: any options, container and content      *)
(***************************************************************************)
\* designWidth and designHeight: a negative number, absent (0), a size
DesignOptions == {-1, 0, MaxDim + 1}

\* aspectRatio: absent (0), wide, tall
RatioOptions == {RatInt(0), Rat(2, 1), Rat(1, 2)}

\* detectedWidth / detectedHeight as a pair
DetectedOptions == {<<0, 0>>, <<0, 1>>, <<MaxDim, MaxDim>>}

\* the container: absent, or present with each dimension in 0..MaxDim
Boxes ==
    {[present |-> FALSE, offsetWidth |-> 0, offsetHeight |-> 0]}
    \cup {[present |-> TRUE, offsetWidth |-> w, offsetHeight |-> h] :
              w \in 0..MaxDim, h \in 0..MaxDim}

\* window.innerWidth / innerHeight
Screens == {[width |-> MaxDim, height |-> 1]}

\* the content: absent, or present and measured by detectElementSize
Measurements ==
    {[present |-> FALSE, width |-> 0, height |-> 0],
     [present |-> TRUE, width |-> 0, height |-> 1],
     [present |-> TRUE, width |-> 1, height |-> MaxDim]}

\* the largest viewport dimension of the 16:9 calls
MaxView == 20

\* the calls that resolve a 16:9 design size in a viewport of positive size:
\* no other option, the container absent or of each size up to MaxView
WideQueries ==
    {[options |-> [designWidth |-> 0, designHeight |-> 0, aspectRatio |-> Rat(16, 9),
                   autoDetect |-> FALSE, detectedWidth |-> 0, detectedHeight |-> 0],
      box |-> box, screen |-> screen,
      measured |-> [present |-> FALSE, width |-> 0, height |-> 0]] :
        box \in {[present |-> FALSE, offsetWidth |-> 0, offsetHeight |-> 0]}
                 \cup {[present |-> TRUE, offsetWidth |-> w, offsetHeight |-> h] :
                           w \in 1..MaxView, h \in 1..MaxView},
        screen \in Screens}

\* the calls over every combination of options, container and content
MixedQueries ==
    {[options |-> [designWidth |-> dw, designHeight |-> dh, aspectRatio |-> ratio,
                   autoDetect |-> auto, detectedWidth |-> det[1],
                   detectedHeight |-> det[2]],
      box |-> box, screen |-> screen, measured |-> measured] :
        dw \in DesignOptions, dh \in DesignOptions, ratio \in RatioOptions,
        det \in DetectedOptions, auto \in BOOLEAN,
        box \in Boxes, screen \in Screens, measured \in Measurements}

\* the arguments determineDesignSize is called with
Queries == MixedQueries \cup WideQueries

InitResolve ==
    /\ InitOf({DefaultConfig})
    /\ asked \in {<<q>> : q \in Queries}
    /\ resolved = <<>>

\* the call determineDesignSize(options, container, content) returns
Resolve ==
    /\ asked # <<>> /\ resolved = <<>>
    /\ resolved' = <<determineDesignSize(asked[1].options, asked[1].box,
                                         asked[1].screen, asked[1].measured)>>
    /\ UNCHANGED <<options, scaler, isInitialized, isDestroyed, listening, added,
                   removed, timeouts, container, wrapped, content, child, calls,
                   op, sinceCall, invoked, before, asked, other>>

NextResolve == Resolve

SpecResolve == InitResolve /\ [][NextResolve]_vars

(***************************************************************************)
(* calculateScale on its own: any viewport, content size and cover         *)
(***************************************************************************)
\* the sizes of the helper's own examples: viewport 800x600 with content
\* 1600x900 and with content 1000x500
ScaleExamples == { <<800, 600, 1600, 900>>, <<800, 600, 1000, 500>> }

\* sizes whose quotients are not doubles: viewport dimensions 7, 15 and 21
\* with content dimensions 11, 19 and 25
RoundingSizes ==
    { <<vw, vh, cw, ch>> : vw \in {7, 15, 21}, vh \in {7, 15, 21},
                           cw \in {11, 19, 25}, ch \in {11, 19, 25} }

\* viewport and content sizes: each viewport dimension from 0 and each content
\* dimension from 1, the examples and the sizes with rounded quotients
ScaleSizes ==
    { <<vw, vh, cw, ch>> : vw \in 0..(MaxDim + 1), vh \in 0..(MaxDim + 1),
                           cw \in 1..(MaxDim + 1), ch \in 1..(MaxDim + 1) }
    \cup ScaleExamples \cup RoundingSizes

\* the fifth argument: true, false or omitted
CoverInputs == { "true", "false", "undefined" }

\* the default parameter cover = false
CoverOrDefault(cover) == IF cover = "undefined" THEN FALSE ELSE cover = "true"

\* the arguments calculateScale is called with
ScaleQueries ==
    {[containerWidth |-> z[1], containerHeight |-> z[2],
      contentWidth |-> z[3], contentHeight |-> z[4], cover |-> c] :
        z \in ScaleSizes, c \in CoverInputs}

InitScale ==
    /\ InitOf({DefaultConfig})
    /\ asked \in {<<q>> : q \in ScaleQueries}
    /\ resolved = <<>>

\* the call calculateScale(containerWidth, containerHeight, contentWidth,
\* contentHeight, cover) returns: the exact ratio, and the double
Scale ==
    /\ asked # <<>> /\ resolved = <<>>
    /\ resolved' = <<calculateScale(asked[1].containerWidth, asked[1].containerHeight,
                                    asked[1].contentWidth, asked[1].contentHeight,
                                    CoverOrDefault(asked[1].cover)),
                     calculateScaleDouble(asked[1].containerWidth, asked[1].containerHeight,
                                          asked[1].contentWidth, asked[1].contentHeight,
                                          CoverOrDefault(asked[1].cover))>>
    /\ UNCHANGED <<options, scaler, isInitialized, isDestroyed, listening, added,
                   removed, timeouts, container, wrapped, content, child, calls,
                   op, sinceCall, invoked, before, asked, other>>

NextScale == Scale

SpecScale == InitScale /\ [][NextScale]_vars

(***************************************************************************)
(* validateMode on its own: any value as the mode                          *)
(***************************************************************************)
\* the upper-case letter of a lower-case one
Upper(c) == UpperChars[CHOOSE k \in DOMAIN LowerChars : LowerChars[k] = c]

\* the spellings of a word with each letter in upper or lower case
CaseVariants(word) ==
    { [i \in DOMAIN word |-> IF i \in S THEN Upper(word[i]) ELSE word[i]] :
          S \in SUBSET DOMAIN word }

\* values that are no mode: strings (unknown, empty, a mode's prefix, a mode
\* with a space after it), numbers, null, undefined, a boolean, an object
OtherModeInputs ==
    { UnknownMode, JsString(<<>>), JsString(<<"f","u","l","l">>),
      JsString(Append(FULLSCREEN.v, " ")),
      JsNumber(<<"1","2","3">>), JsNumber(<<"0">>), JsNull, JsUndefined,
      [t |-> "boolean", v |-> <<"t","r","u","e">>], [t |-> "object", v |-> <<>>] }

\* the arguments validateMode is called with
ModeQueries ==
    {JsString(w) : w \in CaseVariants(FULLSCREEN.v) \cup CaseVariants(PROPORTIONAL.v)}
    \cup OtherModeInputs

InitMode ==
    /\ InitOf({DefaultConfig})
    /\ asked \in {<<q>> : q \in ModeQueries}
    /\ resolved = <<>>

\* the call validateMode(mode) returns
Validate ==
    /\ asked # <<>> /\ resolved = <<>>
    /\ resolved' = <<validateMode(asked[1])>>
    /\ UNCHANGED <<options, scaler, isInitialized, isDestroyed, listening, added,
                   removed, timeouts, container, wrapped, content, child, calls,
                   op, sinceCall, invoked, before, asked, other>>

NextMode == Validate

SpecMode == InitMode /\ [][NextMode]_vars

(***************************************************************************)
(* parseAspectRatio on its own: any short string, and values of other types *)
(***************************************************************************)
\* the longest string given as a ratio
MaxLen == 4

\* the characters of those strings: digits, the separator, a letter, a sign,
\* a point
RatioChars == {"0", "1", "2", ":", "a", "-", "."}

\* every string of at most MaxLen of these characters
RatioStrings ==
    {<<>>} \cup UNION {[1..n -> RatioChars] : n \in 1..MaxLen}

\* the arguments parseAspectRatio is called with
RatioQueries ==
    {JsString(w) : w \in RatioStrings}
    \cup {JsNull, JsUndefined, JsNumber(<<"2">>), JsNumber(<<"0">>)}

InitRatio ==
    /\ InitOf({DefaultConfig})
    /\ asked \in {<<q>> : q \in RatioQueries}
    /\ resolved = <<>>

\* the call parseAspectRatio(ratio) returns
Parse ==
    /\ asked # <<>> /\ resolved = <<>>
    /\ resolved' = <<parseAspectRatio(asked[1])>>
    /\ UNCHANGED <<options, scaler, isInitialized, isDestroyed, listening, added,
                   removed, timeouts, container, wrapped, content, child, calls,
                   op, sinceCall, invoked, before, asked, other>>

NextRatio == Parse

SpecRatio == InitRatio /\ [][NextRatio]_vars

(***************************************************************************)
(* The aspectRatio option from the configuration to the resolver           *)
(***************************************************************************)
JsTrue == [t |-> "boolean", v |-> TRUE]

\* strings given as aspectRatio
RatioWords ==
    { <<>>, <<"a">>, <<"1">>, <<"a", ":", "1">>, <<"1", ":", "0">>,
      <<"0", ":", "1">>, <<"-", "1", ":", "2">>, <<"1", ":", "-", "2">>,
      <<"-", "1", ":", "-", "2">>, <<"2", ":", "1">>, <<"1", ":", "2">>,
      <<"1", ":", "2", ":", "1">> }

\* values given as aspectRatio: none, null, a boolean, the strings, and the
\* numbers 0, NaN, -1/2, -2, 1/2 and 2
RatioInputs ==
    {JsUndefined, JsNull, JsTrue}
    \cup {JsString(w) : w \in RatioWords}
    \cup {JsRatio(r) : r \in {RatInt(0), NaN, Rat(-1, 2), RatInt(-2), Rat(1, 2), RatInt(2)}}

\* a configured aspectRatio with each combination of the other options,
\* container and content
ConfigureQueries ==
    {[aspectRatio |-> value, call |-> q] :
        value \in RatioInputs,
        q \in {c \in MixedQueries : c.options.aspectRatio = RatInt(0)}}

InitConfigure ==
    /\ InitOf({DefaultConfig})
    /\ asked \in {<<q>> : q \in ConfigureQueries}
    /\ resolved = <<>>

\* the options as _normalizeOptions leaves them, given to determineDesignSize
Configure ==
    /\ asked # <<>> /\ resolved = <<>>
    /\ resolved' =
           <<determineDesignSize(
                 [asked[1].call.options EXCEPT
                     !.aspectRatio =
                         AspectRatioNumber(normalizeAspectRatio(asked[1].aspectRatio))],
                 asked[1].call.box, asked[1].call.screen, asked[1].call.measured)>>
    /\ UNCHANGED <<options, scaler, isInitialized, isDestroyed, listening, added,
                   removed, timeouts, container, wrapped, content, child, calls,
                   op, sinceCall, invoked, before, asked, other>>

NextConfigure == Configure

SpecConfigure == InitConfigure /\ [][NextConfigure]_vars

(***************************************************************************)
(* Properties                                                              *)
(***************************************************************************)
\* the positions of the calls of f in a log
Positions(log, f) == { i \in DOMAIN log : log[i].f = f }

\* the number of calls of f in a log
Count(log, f) == Cardinality(Positions(log, f))

\* the display surface a style step writes
Surface == <<container, content, wrapped, child>>

\* C1: setMode on an initialized Scaler with a mode other than the current one
\* calls refresh once and then onModeChange once, with the new mode; an
\* instance configured without an onModeChange function has none to call.
C1_SetModeChange ==
    [][(/\ op'.name = "setMode"
        /\ scaler.isInitialized
        /\ validateMode(op'.arg) # scaler.currentMode)
       => /\ Count(calls', "refresh") = 1
          /\ scaler'.currentMode = validateMode(op'.arg)
          /\ IF scaler.options.onModeChange = "function"
             THEN /\ Count(calls', "onModeChange") = 1
                  /\ calls'[Len(calls')].f = "onModeChange"
                  /\ calls'[Len(calls')].mode = validateMode(op'.arg)
                  /\ calls'[1].f = "refresh"
             ELSE Count(calls', "onModeChange") = 0]_vars

C1_Witness ==
    /\ op.name = "setMode"
    /\ Count(calls, "refresh") = 1
    /\ Count(calls, "onModeChange") = 1
    /\ calls[Len(calls)].mode = FULLSCREEN

\* C2: setMode with the Scaler's current mode, or on a Scaler not yet
\* initialized, stores the mode and does nothing else: no refresh, no style
\* step, no onResize, no onModeChange, no other change to the Scaler or the
\* display surface.  (The Scaler is the one FitScreenJS.setMode hands over,
\* its preserveChildStyles option set.)
C2_SetModeSilent ==
    [][(/\ op'.name = "setMode"
        /\ ~scaler.isInitialized \/ validateMode(op'.arg) = scaler.currentMode)
       => /\ calls' = <<>>
          /\ scaler' = [scaler EXCEPT !.currentMode = validateMode(op'.arg),
                                      !.options.preserveChildStyles = "true"]
          /\ UNCHANGED Surface]_vars

C2_Witness ==
    /\ op.name = "setMode"
    /\ ~scaler.isInitialized
    /\ scaler.currentMode # validateMode(options.mode)
    /\ calls = <<>>

\* C3: getMode() is 'proportional' or 'fullscreen' in every state, whatever
\* mode was configured and whatever was given to setMode, and right after
\* setMode(x) it is validateMode(x).
C3_ModeIsCanonical ==
    /\ getMode \in {PROPORTIONAL, FULLSCREEN}
    /\ op.name = "setMode" => getMode = validateMode(op.arg)

C3_Witness ==
    /\ op.name = "setMode"
    /\ options.mode = UnknownMode
    /\ getMode = FULLSCREEN

\* C4: destroy() on a bound instance removes the resize listener and sets the
\* destroyed flag; a second destroy() changes nothing, so the listener is
\* removed exactly once.
C4_DestroyTwice ==
    /\ []((op.name = "destroy" /\ isInitialized)
            => (isDestroyed /\ ~listening /\ removed = 1))
    /\ [][(op'.name = "destroy" /\ isInitialized /\ ~isDestroyed)
            => (removed' = removed + 1 /\ Count(calls', "removeEventListener") = 1)]_vars
    /\ [][(op.name = "destroy" /\ op'.name = "destroy")
            => (calls' = <<>> /\ UNCHANGED <<options, scaler, isInitialized, isDestroyed,
                                             listening, added, removed, timeouts,
                                             container, wrapped, content, child>>)]_vars

C4_Witness ==
    /\ op.name = "destroy"
    /\ isDestroyed
    /\ removed = 1
    /\ calls = <<>>

\* C5: over any sequence of applyTo and destroy calls the resize listener is
\* added at most once, by the first applyTo that finds its container, and
\* removed at most once and never before it was added; an applyTo on an
\* instance already bound adds none.
C5_ListenerOnce ==
    /\ [](/\ added <= 1 /\ removed <= added
          /\ added = (IF isInitialized THEN 1 ELSE 0)
          /\ listening = (added = 1 /\ removed = 0))
    /\ [][op'.name = "applyTo" =>
            /\ added' = (IF isInitialized \/ getElement(op'.arg) # NULL THEN 1 ELSE 0)
            /\ isInitialized => Count(calls', "addEventListener") = 0
            /\ removed' = removed]_vars

C5_Witness ==
    /\ op.name = "applyTo"
    /\ isDestroyed
    /\ added = 1 /\ removed = 1
    /\ Count(calls, "refresh") > 0

\* the style step of a mode
StyleStepOf(mode) ==
    IF mode = FULLSCREEN THEN "applyFullscreenMode" ELSE "applyProportionalMode"

\* the scale the container's size, the design size and the mode call for
ScaleOfViewport ==
    IF scaler.designSize.width = 0 \/ scaler.designSize.height = 0 THEN RatOne
    ELSE IF scaler.currentMode = FULLSCREEN
    THEN RatMax(Rat(container.offsetWidth, scaler.designSize.width),
                Rat(container.offsetHeight, scaler.designSize.height))
    ELSE RatMin(Rat(container.offsetWidth, scaler.designSize.width),
                Rat(container.offsetHeight, scaler.designSize.height))

\* the Scaler has its container and its content
Bound == scaler.container # NULL /\ scaler.content # NULL

\* C6: the debounced function runs only once the wait has passed since the
\* most recent call of the handler, and after a burst of calls and a quiet
\* period of the wait it has run exactly once.
C6_Debounce ==
    /\ op.name = "timer" => (sinceCall # <<>> /\ sinceCall[1] >= RESIZE_WAIT)
    /\ (sinceCall # <<>> /\ sinceCall[1] < RESIZE_WAIT) => invoked = 0
    /\ (sinceCall # <<>> /\ sinceCall[1] >= RESIZE_WAIT /\ timeouts = <<>>)
           => invoked = 1

C6_Witness ==
    /\ op.name = "timer"
    /\ sinceCall = <<RESIZE_WAIT>>
    /\ timeouts = <<>>
    /\ invoked = 1

\* C7: on a bound instance that is not destroyed, once the resize events stop
\* a delivered resize event is followed by a refresh, after which getScale()
\* is the scale of the container's new size, the design size and the mode.
C7_ResizeRefreshes ==
    \/ []<>(op.name = "resize")
    \/ (timeouts # <<>> /\ ~isDestroyed)
           ~> (isDestroyed \/ (/\ op.name = "timer"
                               /\ Count(calls, "refresh") = 1
                               /\ getScale = ScaleOfViewport))

C7_Witness ==
    /\ op.name = "timer"
    /\ ~isDestroyed
    /\ container.offsetWidth = 0
    /\ Count(calls, "refresh") = 1
    /\ getScale = RatInt(0)

\* C8: refresh() on a Scaler without its container or its content changes
\* nothing: no style step, no onResize, the scale as it was, isInitialized
\* still false.
C8_UnboundRefresh ==
    [][(/\ op'.name \in {"refresh", "setDesignSize"}
        /\ ~Bound
        /\ Count(calls', "refresh") > 0)
       => /\ calls' = <<Event("refresh")>>
          /\ scaler' = [scaler EXCEPT !.designSize = scaler'.designSize]
          /\ ~scaler'.isInitialized
          /\ UNCHANGED Surface]_vars

C8_Witness ==
    /\ op.name = "refresh"
    /\ ~Bound
    /\ calls = <<Event("refresh")>>
    /\ ~scaler.isInitialized

\* C9: after a refresh with container and content bound and a valid design
\* size, getScale() is the smaller of the two ratios of container to design
\* size in proportional mode and the larger in fullscreen mode, and the style
\* step of that mode, and not the other's, was called with this scale.
C9_ScaleOfMode ==
    (/\ Count(calls, "refresh") > 0
     /\ Bound
     /\ scaler.designSize.width > 0 /\ scaler.designSize.height > 0)
    => /\ getScale = ScaleOfViewport
       /\ Count(calls, StyleStepOf(scaler.currentMode)) = Count(calls, "refresh")
       /\ Count(calls, "applyFullscreenMode") + Count(calls, "applyProportionalMode")
              = Count(calls, "refresh")
       /\ \A i \in Positions(calls, StyleStepOf(scaler.currentMode)) :
              calls[i].scale = getScale

C9_Witness ==
    /\ Count(calls, "refresh") > 0
    /\ Bound
    /\ scaler.currentMode = FULLSCREEN
    /\ scaler.designSize = [width |-> 1, height |-> 1]
    /\ container.offsetWidth = MaxDim
    /\ getScale = RatInt(MaxDim)
    /\ Count(calls, "applyFullscreenMode") = 1

\* the onResize call of a refresh in the current state
OnResizeCall ==
    [Event("onResize") EXCEPT
        !.w = container.offsetWidth, !.h = container.offsetHeight,
        !.scale = getScale,
        !.pair = IF scaler.currentMode = FULLSCREEN THEN "pair" ELSE "null",
        !.x = IF scaler.currentMode = FULLSCREEN THEN scaler.currentScaleX ELSE RatOne,
        !.y = IF scaler.currentMode = FULLSCREEN THEN scaler.currentScaleY ELSE RatOne]

C11_SetDesignSize ==
    [][op'.name = "setDesignSize" =>
         IF op'.arg[1] > 0 /\ op'.arg[2] > 0
         THEN /\ scaler'.designSize = [width |-> op'.arg[1], height |-> op'.arg[2]]
              /\ Count(calls', "refresh") = 1
              /\ calls'[1].f = "refresh"
         ELSE /\ calls' = <<>>
              /\ scaler' = scaler
              /\ UNCHANGED Surface]_vars

C11_Witness ==
    /\ op.name = "setDesignSize"
    /\ op.arg = <<0, 1>>
    /\ Bound
    /\ scaler.designSize = [width |-> 1, height |-> 1]
    /\ calls = <<>>

\* a number that is the result of no division by zero
Finite(r) == r.d > 0

\* C12: while the design width or height is zero, or no container is bound,
\* the scale computed and stored is 1, and so is the scale handed to the style
\* step and to onResize; and no scale, in any state, is the result of a
\* division by zero.
C12_NeutralScale ==
    /\ (scaler.container = NULL \/ scaler.designSize.width = 0
                                \/ scaler.designSize.height = 0)
           => /\ getScale = RatOne
              /\ \A i \in DOMAIN calls : calls[i].scale = RatOne
    /\ Finite(getScale) /\ Finite(scaler.currentScaleX) /\ Finite(scaler.currentScaleY)
    /\ \A i \in DOMAIN calls :
           Finite(calls[i].scale) /\ Finite(calls[i].x) /\ Finite(calls[i].y)

C12_Witness ==
    /\ Bound
    /\ scaler.designSize = [width |-> 0, height |-> 0]
    /\ Count(calls, "refresh") > 0
    /\ Count(calls, "applyProportionalMode") > 0
    /\ getScale = RatOne

\* C13: after a refresh with container and content bound and a valid design
\* size, a container of zero width or zero height gives the scale 1.
C13_ZeroViewport ==
    (/\ Count(calls, "refresh") > 0
     /\ Bound
     /\ scaler.designSize.width > 0 /\ scaler.designSize.height > 0
     /\ container.offsetWidth = 0 \/ container.offsetHeight = 0)
    => getScale = RatOne

\* the scale remembered was the proportional scale of the container and the
\* design size remembered with it
Current(b) ==
    b.scale = (IF b.designSize.width = 0 \/ b.designSize.height = 0 THEN RatOne
               ELSE RatMin(Rat(b.width, b.designSize.width),
                           Rat(b.height, b.designSize.height)))

NotModeChange(e) == e.f # "onModeChange"

\* the calls of the last refresh in a log that holds one
LastRefresh(log) ==
    SelectSeq(SubSeq(log, CHOOSE i \in Positions(log, "refresh") :
                              \A j \in Positions(log, "refresh") : j <= i,
                     Len(log)),
              NotModeChange)

\* C15: a refresh() directly after an operation that refreshed, with mode,
\* design size and container as that refresh left them, computes the same scale
\* and pair and makes the same calls with the same values, and leaves the
\* Scaler and the display surface (the content's size and position) as the
\* first refresh left them.
C15_RefreshIdempotent ==
    [][(op'.name = "refresh" /\ Count(calls, "refresh") > 0)
       => /\ scaler' = scaler
          /\ UNCHANGED Surface
          /\ calls' = LastRefresh(calls)]_vars

C15_Witness ==
    /\ op.name = "refresh"
    /\ Bound
    /\ scaler.currentMode = FULLSCREEN
    /\ content.width = CssPx(MaxDim)
    /\ content.transform = Transform("scaleXY", RatInt(MaxDim), RatOne)
    /\ Len(calls) = 3
    /\ calls[2].f = "applyFullscreenMode"

\* C16: applyTo with a selector or reference that resolves to no element logs
\* an error and changes nothing else: no listener added, isInitialized, the
\* Scaler (elements, design size, mode, scale) and the display surface as they
\* were, no callback called.
C16_MissingContainer ==
    [][(op'.name = "applyTo" /\ getElement(op'.arg) = NULL)
       => /\ calls' = <<Event("console.error")>>
          /\ UNCHANGED <<options, scaler, isInitialized, isDestroyed, listening,
                         added, removed, timeouts, container, wrapped, content,
                         child>>]_vars

C16_Witness ==
    /\ op.name = "applyTo"
    /\ op.arg = "#missing"
    /\ calls = <<Event("console.error")>>
    /\ ~isInitialized
    /\ added = 0
    /\ ~Bound

Usable(size) == size.width > 0 /\ size.height > 0

\* no size
NoSize == [width |-> 0, height |-> 0]

\* the viewport of a call of determineDesignSize: the container, or the
\* window without one
ViewportOf(q) ==
    IF q.box.present
    THEN [width |-> q.box.offsetWidth, height |-> q.box.offsetHeight]
    ELSE q.screen

\* the size of ratio r in the viewport vp: the viewport's height and the
\* rounded width of that ratio when the viewport is wider than r, else the
\* viewport's width and the rounded height
RatioSize(vp, r) ==
    IF vp.width * r.d > r.n * vp.height
    THEN [width |-> RoundDiv(vp.height * r.n, r.d), height |-> vp.height]
    ELSE [width |-> vp.width, height |-> RoundDiv(vp.width * r.d, r.n)]

\* the six sources of a design size, in their order of priority
Sources(q) ==
    << [width |-> q.options.designWidth, height |-> q.options.designHeight],
       IF q.options.aspectRatio.n > 0
       THEN RatioSize(ViewportOf(q), q.options.aspectRatio) ELSE NoSize,
       [width |-> q.options.detectedWidth, height |-> q.options.detectedHeight],
       IF q.options.autoDetect /\ q.measured.present
       THEN [width |-> q.measured.width, height |-> q.measured.height] ELSE NoSize,
       IF q.box.present
       THEN [width |-> q.box.offsetWidth, height |-> q.box.offsetHeight] ELSE NoSize,
       [width |-> DEFAULT_WIDTH, height |-> DEFAULT_HEIGHT] >>

\* the first source with both dimensions > 0
FirstUsable(sources) ==
    sources[CHOOSE i \in DOMAIN sources :
                /\ Usable(sources[i])
                /\ \A j \in 1..(i - 1) : ~Usable(sources[j])]

\* C18: determineDesignSize returns the first source, in the order configured
\* size, aspect ratio in the viewport, detected size, measured content,
\* container, default, whose two dimensions are both > 0.
C18_FirstValidSource ==
    resolved # <<>> => resolved[1] = FirstUsable(Sources(asked[1]))

\* C19: determineDesignSize returns a size with both dimensions > 0, whatever
\* the options and whether the container is absent, zero-sized or positive.
C19_AlwaysUsable ==
    resolved # <<>> => Usable(resolved[1])

\* C20: a design size resolved from an aspect ratio and a viewport exceeds the
\* viewport along neither axis: it is the viewport's height with the rounded
\* width of that ratio when the viewport is wider than the ratio, and the
\* viewport's width with the rounded height otherwise.
C20_RatioWithinViewport ==
    (/\ resolved # <<>>
     /\ ~Usable(Sources(asked[1])[1])
     /\ asked[1].options.aspectRatio.n > 0)
    => /\ resolved[1].width <= ViewportOf(asked[1]).width
       /\ resolved[1].height <= ViewportOf(asked[1]).height
       /\ resolved[1] = RatioSize(ViewportOf(asked[1]), asked[1].options.aspectRatio)

C20_Witness ==
    /\ resolved # <<>>
    /\ asked[1].options.designWidth = 0
    /\ asked[1].options.aspectRatio = Rat(1, 2)
    /\ asked[1].box = [present |-> TRUE, offsetWidth |-> MaxDim, offsetHeight |-> MaxDim]
    /\ resolved[1] = [width |-> RoundDiv(MaxDim, 2), height |-> MaxDim]

\* the calls of C21: a 16:9 ratio, no configured size, a viewport of positive size
WideCall ==
    /\ resolved # <<>>
    /\ ~Usable(Sources(asked[1])[1])
    /\ asked[1].options.aspectRatio = Rat(16, 9)
    /\ Usable(ViewportOf(asked[1]))

\* width / height is within 0.1 of 16/9 and width > height
Near16To9(size) ==
    /\ size.height > 0
    /\ 10 * Abs(9 * size.width - 16 * size.height) <= 9 * size.height
    /\ size.width > size.height

\* C21 as stated: a design size resolved from the ratio 16:9 has width / height
\* within 0.1 of 16/9 and width > height, for every viewport of positive size.
C21_MatchesRatio ==
    WideCall => Near16To9(resolved[1])

\* C21: a design size resolved from the ratio 16:9 in a viewport of positive
\* size has width / height within 0.1 of 16/9 and width > height whenever its
\* resolved height is at least 7; below that the rounding to whole pixels can
\* move it further.
C21_MatchesRatioFrom7 ==
    (WideCall /\ resolved[1].height >= 7) => Near16To9(resolved[1])

C21_Witness ==
    /\ WideCall
    /\ asked[1].box = [present |-> TRUE, offsetWidth |-> 15, offsetHeight |-> 15]
    /\ resolved[1] = [width |-> 15, height |-> 8]

\* the degenerate call: no configured size, no ratio, no detected size, no
\* usable measurement of the content, the container absent or without area
Degenerate(q) ==
    /\ q.options.designWidth = 0 /\ q.options.designHeight = 0
    /\ q.options.aspectRatio.n = 0
    /\ q.options.detectedWidth = 0 /\ q.options.detectedHeight = 0
    /\ ~(q.measured.present /\ Usable(q.measured))
    /\ ~(q.box.present /\ q.box.offsetWidth > 0 /\ q.box.offsetHeight > 0)

\* C22: determineDesignSize with no explicit design size, no aspect ratio, no
\* detected or measured content size and a container that is absent or
\* zero-sized returns the default 1920x1080.
C22_DefaultSize ==
    (resolved # <<>> /\ Degenerate(asked[1]))
    => resolved[1] = [width |-> DEFAULT_WIDTH, height |-> DEFAULT_HEIGHT]

C22_Witness ==
    /\ resolved # <<>>
    /\ Degenerate(asked[1])
    /\ asked[1].options.autoDetect
    /\ asked[1].measured = [present |-> TRUE, width |-> 0, height |-> 1]
    /\ asked[1].box = [present |-> TRUE, offsetWidth |-> 0, offsetHeight |-> MaxDim]
    /\ resolved[1] = [width |-> DEFAULT_WIDTH, height |-> DEFAULT_HEIGHT]

\* the container's size
ContainerSize == [width |-> container.offsetWidth, height |-> container.offsetHeight]

\* applyTo has just bound the instance to the container
Applied == op.name = "applyTo" /\ getElement(op.arg) # NULL

\* C23: for an instance configured with no designWidth/designHeight, no
\* aspectRatio and autoDetect not enabled, applyTo on a container of positive
\* size resolves the design size to the container's size, whatever the size of
\* the container's children.
C23_ContainerSize ==
    (/\ Applied
     /\ options.designWidth = 0 /\ options.designHeight = 0
     /\ options.aspectRatio.n = 0 /\ ~options.autoDetect
     /\ Usable(ContainerSize))
    => scaler.designSize = ContainerSize

\* the number r is the quotient p / q, for q > 0
IsQuotient(r, p, q) == r.d > 0 /\ r.n * q = p * r.d

\* r <= p / q, and r >= p / q, for q > 0
AtMostQuotient(r, p, q) == r.d > 0 /\ r.n * q <= p * r.d
AtLeastQuotient(r, p, q) == r.d > 0 /\ r.n * q >= p * r.d

\* the call's answer is one of the two ratios viewport / content
OneOfRatios(q, r) ==
    \/ IsQuotient(r, q.containerWidth, q.contentWidth)
    \/ IsQuotient(r, q.containerHeight, q.contentHeight)

\* C24: for every viewport size and every content size with positive width and
\* height, calculateScale returns the smaller of viewportWidth / contentWidth
\* and viewportHeight / contentHeight when cover is false or omitted, and the
\* larger when cover is true; (800, 600, 1600, 900) gives 1/2 and 2/3,
\* (800, 600, 1000, 500) gives 4/5 and 6/5.
C24_MinOrMax ==
    resolved # <<>> =>
        /\ OneOfRatios(asked[1], resolved[1])
        /\ asked[1].cover \in {"false", "undefined"} =>
              /\ AtMostQuotient(resolved[1], asked[1].containerWidth, asked[1].contentWidth)
              /\ AtMostQuotient(resolved[1], asked[1].containerHeight, asked[1].contentHeight)
        /\ asked[1].cover = "true" =>
              /\ AtLeastQuotient(resolved[1], asked[1].containerWidth, asked[1].contentWidth)
              /\ AtLeastQuotient(resolved[1], asked[1].containerHeight, asked[1].contentHeight)
        /\ (asked[1].contentWidth = 1600 /\ asked[1].cover # "true")
              => resolved[1] = [n |-> 1, d |-> 2]
        /\ (asked[1].contentWidth = 1600 /\ asked[1].cover = "true")
              => resolved[1] = [n |-> 2, d |-> 3]
        /\ (asked[1].contentWidth = 1000 /\ asked[1].cover # "true")
              => resolved[1] = [n |-> 4, d |-> 5]
        /\ (asked[1].contentWidth = 1000 /\ asked[1].cover = "true")
              => resolved[1] = [n |-> 6, d |-> 5]

C24_Witness ==
    /\ resolved # <<>>
    /\ resolved[1] = [n |-> 2, d |-> 3]
    /\ asked[1].containerWidth = 800 /\ asked[1].containerHeight = 600
    /\ asked[1].contentWidth = 1600 /\ asked[1].contentHeight = 900
    /\ asked[1].cover = "true"

\* a call with positive viewport and content sizes has returned
PositiveCall ==
    /\ resolved # <<>>
    /\ asked[1].containerWidth > 0 /\ asked[1].containerHeight > 0

\* contentWidth * s and contentHeight * s as the program computes them
ScaledWidth == FMul(asked[1].contentWidth, resolved[2])
ScaledHeight == FMul(asked[1].contentHeight, resolved[2])

\* x is the integer k or one of the two doubles next to it
WithinUlp(x, k) == x \in {FPred(FInt(k)), FInt(k), FSucc(FInt(k))}

\* C25 as stated: for positive viewport and content sizes, with cover false
\* contentWidth * s <= viewportWidth and contentHeight * s <= viewportHeight,
\* with cover true both are >=, and in both cases one of the two is an equality.
C25_Fit ==
    PositiveCall =>
        /\ \/ ScaledWidth = FInt(asked[1].containerWidth)
           \/ ScaledHeight = FInt(asked[1].containerHeight)
        /\ asked[1].cover # "true" =>
              /\ FLE(ScaledWidth, FInt(asked[1].containerWidth))
              /\ FLE(ScaledHeight, FInt(asked[1].containerHeight))
        /\ asked[1].cover = "true" =>
              /\ FLE(FInt(asked[1].containerWidth), ScaledWidth)
              /\ FLE(FInt(asked[1].containerHeight), ScaledHeight)

\* C25: for positive viewport and content sizes the fit guarantees hold for
\* the exact ratio s (content * s <= viewport on both axes without cover, >=
\* on both with cover, with equality on one axis), and for the products the
\* program computes in doubles they hold up to one unit in the last place of
\* the viewport dimension.
C25_FitWithinUlp ==
    PositiveCall =>
        /\ OneOfRatios(asked[1], resolved[1])
        /\ \/ WithinUlp(ScaledWidth, asked[1].containerWidth)
           \/ WithinUlp(ScaledHeight, asked[1].containerHeight)
        /\ asked[1].cover # "true" =>
              /\ resolved[1].n * asked[1].contentWidth <= asked[1].containerWidth * resolved[1].d
              /\ resolved[1].n * asked[1].contentHeight <= asked[1].containerHeight * resolved[1].d
              /\ FLE(ScaledWidth, FSucc(FInt(asked[1].containerWidth)))
              /\ FLE(ScaledHeight, FSucc(FInt(asked[1].containerHeight)))
        /\ asked[1].cover = "true" =>
              /\ resolved[1].n * asked[1].contentWidth >= asked[1].containerWidth * resolved[1].d
              /\ resolved[1].n * asked[1].contentHeight >= asked[1].containerHeight * resolved[1].d
              /\ FLE(FPred(FInt(asked[1].containerWidth)), ScaledWidth)
              /\ FLE(FPred(FInt(asked[1].containerHeight)), ScaledHeight)

C25_Witness ==
    /\ PositiveCall
    /\ asked[1].containerWidth = 15 /\ asked[1].containerHeight = 15
    /\ asked[1].contentWidth = 11 /\ asked[1].contentHeight = 11
    /\ asked[1].cover = "true"
    /\ resolved[1] = [n |-> 15, d |-> 11]
    /\ ScaledWidth = FPred(FInt(15))

\* the fullscreen Scaler has refreshed with its elements and a design size
\* of positive width and height
FillRefreshed ==
    /\ Count(calls, "refresh") > 0
    /\ Bound
    /\ scaler.currentMode = FULLSCREEN
    /\ scaler.designSize.width > 0 /\ scaler.designSize.height > 0

\* C26: in fullscreen mode, after every refresh with a valid design size, the
\* stored pair is scaleX = viewportWidth / designWidth and scaleY =
\* viewportHeight / designHeight and the stored scale is the larger of the two;
\* the pair handed to the style step and to onResize is that same pair.
C26_FreshPair ==
    FillRefreshed =>
        /\ IsQuotient(scaler.currentScaleX, container.offsetWidth, scaler.designSize.width)
        /\ IsQuotient(scaler.currentScaleY, container.offsetHeight, scaler.designSize.height)
        /\ getScale \in {scaler.currentScaleX, scaler.currentScaleY}
        /\ RatLE(scaler.currentScaleX, getScale) /\ RatLE(scaler.currentScaleY, getScale)
        /\ \A i \in DOMAIN LastRefresh(calls) :
               LastRefresh(calls)[i].f \in {"applyFullscreenMode", "onResize"}
               => /\ LastRefresh(calls)[i].x = scaler.currentScaleX
                  /\ LastRefresh(calls)[i].y = scaler.currentScaleY
                  /\ LastRefresh(calls)[i].scale = getScale

C26_Witness ==
    /\ FillRefreshed
    /\ scaler.designSize = [width |-> 1, height |-> 1]
    /\ container.offsetWidth = MaxDim /\ container.offsetHeight = 1
    /\ scaler.currentScaleX = RatInt(MaxDim) /\ scaler.currentScaleY = RatOne
    /\ getScale = RatInt(MaxDim)
    /\ Count(calls, "onResize") = 1

\* the content's rendered width and height: its box, as the style step left
\* it, times the scale of its transform on that axis
RenderedWidth == RatMul(RatInt(ContentOffsetWidth(World)), content.transform.x)
RenderedHeight == RatMul(RatInt(ContentOffsetHeight(World)), content.transform.y)

\* C27: in fullscreen mode the content fills the viewport on both axes: after
\* setMode to fullscreen, or a binding in fullscreen mode, and its refresh,
\* with a design size of positive width and height, the content's box times
\* the applied scaleX and scaleY is the container's width and height.
C27_FillsViewport ==
    (/\ FillRefreshed
     /\ \/ op.name = "setMode" /\ validateMode(op.arg) = FULLSCREEN
        \/ op.name \in {"applyTo", "new"})
    => /\ RenderedWidth = RatInt(container.offsetWidth)
       /\ RenderedHeight = RatInt(container.offsetHeight)

\* the value is the string word in some letter case
Spells(value, word) ==
    /\ value.t = "string"
    /\ Len(value.v) = Len(word.v)
    /\ \A i \in DOMAIN word.v : value.v[i] \in {word.v[i], Upper(word.v[i])}

\* C28: validateMode returns 'proportional' or 'fullscreen' for every input:
\* the matching lower-case mode for either word in any letter case, and
\* 'proportional' for every other input (unknown string, empty string,
\* number, null, undefined, any non-string).
C28_Total ==
    resolved # <<>> =>
        /\ resolved[1] \in MODES
        /\ resolved[1] = FULLSCREEN <=> Spells(asked[1], FULLSCREEN)
        /\ Spells(asked[1], PROPORTIONAL) => resolved[1] = PROPORTIONAL

C28_Witness ==
    /\ resolved = <<FULLSCREEN>>
    /\ asked = <<MixedCaseFullscreen>>

\* the string is digits only, at least one
Unsigned(chars) == chars # <<>> /\ \A i \in DOMAIN chars : IsDigit(chars[i])

\* a string with one separator
TwoHalves(value) == value.t = "string" /\ Cardinality(Colons(value.v)) = 1

\* a well-formed "a:b": two unsigned integers
WellFormed(value) ==
    /\ TwoHalves(value)
    /\ Unsigned(Halves(value.v)[1]) /\ Unsigned(Halves(value.v)[2])

PositiveRatios ==
    { JsString(<<"2", ":", "1">>), JsString(<<"1", ":", "2">>),
      JsString(<<"-", "1", ":", "-", "2">>),
      JsRatio([n |-> 1, d |-> 2]), JsRatio([n |-> 2, d |-> 1]) }

\* C30: a configured aspectRatio that is not a positive number (missing, null,
\* not a string or number, a string that does not parse, zero or negative as a
\* string or as a number, NaN) is treated as absent: the design size is the
\* first usable one of the other sources, in their order.
C30_AbsentRatio ==
    (resolved # <<>> /\ asked[1].aspectRatio \notin PositiveRatios)
    => resolved[1] = FirstUsable(Sources(asked[1].call))

C30_Witness ==
    /\ resolved # <<>>
    /\ asked[1].aspectRatio = JsString(<<"-", "1", ":", "2">>)
    /\ asked[1].call.options.designWidth = 0
    /\ asked[1].call.options.detectedWidth = 0
    /\ ~asked[1].call.options.autoDetect
    /\ asked[1].call.box = [present |-> TRUE, offsetWidth |-> MaxDim, offsetHeight |-> 1]
    /\ resolved[1] = [width |-> MaxDim, height |-> 1]

\* no call of onModeChange in a log
NoModeChange(log) == Count(log, "onModeChange") = 0

\* a default-configured instance not yet bound, set to fullscreen by setMode
FullscreenBeforeBinding ==
    /\ ~isInitialized
    /\ options.mode = JsUndefined
    /\ scaler.options.onModeChange = "function"
    /\ scaler.currentMode = FULLSCREEN

\* r is the larger of width / design.width and height / design.height
IsCoverScale(r, width, height, design) ==
    /\ Usable(design)
    /\ IsQuotient(r, width, design.width) \/ IsQuotient(r, height, design.height)
    /\ AtLeastQuotient(r, width, design.width)
    /\ AtLeastQuotient(r, height, design.height)

\* C31: a mode set before the instance is bound is the one the first
\* computation at binding uses: from new FitScreenJS() with the default
\* configuration and setMode('fullscreen'), no step before the binding calls
\* onModeChange, and the applyTo that binds calls it neither, leaves getMode()
\* 'fullscreen' and getScale() the cover scale, the larger of the two ratios of
\* the container to the design size.
C31_ModeBeforeBinding ==
    [][FullscreenBeforeBinding =>
          /\ NoModeChange(calls')
          /\ (op'.name = "applyTo" /\ getElement(op'.arg) # NULL) =>
                /\ isInitialized'
                /\ Scaler_getMode(scaler') = FULLSCREEN
                /\ IsCoverScale(Scaler_getScale(scaler'), container'.offsetWidth,
                                container'.offsetHeight, scaler'.designSize)]_vars

\* the first binding of such an instance in a container without width, where
\* the cover scale 1 differs from the contain scale 0
C31_Witness ==
    /\ op = Op("applyTo", "#container")
    /\ Count(calls, "addEventListener") = 1
    /\ options.mode = JsUndefined
    /\ scaler.options.onModeChange = "function"
    /\ getMode = FULLSCREEN
    /\ container.offsetWidth = 0
    /\ getScale = RatOne
    /\ NoModeChange(calls)

\* the last operation applied the fullscreen style with the content scaled
FillStyled ==
    /\ Count(calls, "applyFullscreenMode") > 0
    /\ OptionOr(scaler.options.scaleContent, TRUE)

\* C32: the configured preserveChildStyles stays in effect: for an instance
\* configured with false the Scaler's option stays false, and every fullscreen
\* style application, those after a setMode call included, leaves the content's
\* first child resized to fill the content.
C32_ChildStylesKept ==
    options.preserveChildStyles = "false" =>
        /\ scaler.options.preserveChildStyles = "false"
        /\ (FillStyled /\ child.present) => content.firstChildFill

\* what is compared of an instance in the world w: its mode, design size,
\* scale, flags and listener registration
Observed(w) ==
    [mode |-> Scaler_getMode(w.scaler), designSize |-> w.scaler.designSize,
     scale |-> Scaler_getScale(w.scaler),
     scaleX |-> w.scaler.currentScaleX, scaleY |-> w.scaler.currentScaleY,
     isInitialized |-> w.isInitialized, scalerInitialized |-> w.scaler.isInitialized,
     isDestroyed |-> w.isDestroyed, listening |-> w.listening]

\* the options it holds
Held(w) == [options |-> w.options, scalerOptions |-> w.scaler.options]

\* C33: two instances bound to different containers are independent, also
\* when constructed from the same options object: an operation on the second
\* (applyTo, setMode, setDesignSize, refresh, destroy, a resize-triggered
\* refresh) changes neither the first's mode, design size, scale, flags and
\* listener registration nor the options it holds, an operation on the first
\* changes none of the second's, and the first is at every step what it would
\* be on a page without the second.
C33_Independent ==
    [][/\ op'.name = "peer" =>
             /\ Observed(World)' = Observed(World)
             /\ Held(World)' = Held(World)
       /\ op'.name = "this" =>
             /\ Observed(other'[1].peer) = Observed(other[1].peer)
             /\ Held(other'[1].peer) = Held(other[1].peer)
       /\ Observed(World)' = Observed(other'[1].alone)]_vars

\* both constructed from one options object and both bound; the second has
\* just been destroyed, the first still listens
C33_Witness ==
    /\ other # <<>>
    /\ other[1].given.this = other[1].given.peer
    /\ op = Op("peer", NULL)
    /\ other[1].peer.isDestroyed /\ ~other[1].peer.listening
    /\ isInitialized /\ ~isDestroyed /\ listening

\* C34: the Scaler's design size is held until replaced: a step changes it only
\* when it is setDesignSize with both arguments > 0, which then are the new
\* design size, or an applyTo that finds its container; setMode, refresh,
\* resize-triggered refreshes and destroy leave it as it is.
C34_DesignSizeHeld ==
    [][/\ scaler'.designSize # scaler.designSize =>
             \/ /\ op'.name = "setDesignSize"
                /\ op'.arg[1] > 0 /\ op'.arg[2] > 0
                /\ scaler'.designSize = [width |-> op'.arg[1], height |-> op'.arg[2]]
             \/ op'.name = "applyTo" /\ getElement(op'.arg) # NULL
       /\ op'.name \in {"setMode", "refresh", "resizeSettled", "destroy"} =>
             scaler'.designSize = scaler.designSize]_vars

\* a design size set by setDesignSize(1, 1), held through a resize-triggered
\* refresh in a container of another size
C34_Witness ==
    /\ op.name = "resizeSettled"
    /\ Count(calls, "refresh") = 1
    /\ scaler.designSize = [width |-> 1, height |-> 1]
    /\ container.offsetWidth = MaxDim

\* the step ran Scaler.refresh with both elements bound
RefreshedBound ==
    /\ Count(calls', "refresh") > 0
    /\ scaler'.container # NULL /\ scaler'.content # NULL

\* C35: Scaler.isInitialized is false while the Scaler has no elements, as it
\* is after construction; a step makes it true exactly when the step runs a
\* refresh with both container and content bound; once true it stays true,
\* whatever follows (setDesignSize with invalid values, setMode, destroy).
C35_InitializedOnce ==
    /\ [](scaler.container = NULL => ~scaler.isInitialized)
    /\ [][/\ scaler.isInitialized => scaler'.isInitialized
          /\ ~scaler.isInitialized => (scaler'.isInitialized <=> RefreshedBound)]_vars

\* still initialized after a setDesignSize with an invalid size
C35_Witness ==
    /\ op = Op("setDesignSize", <<0, 1>>)
    /\ scaler.isInitialized
    /\ isDestroyed

\* C36: once destroy() has taken effect on a bound instance no resize event
\* leads to a refresh: a resize delivered afterwards starts no timer, and the
\* timer of a resize that was pending when destroy() was called fires without
\* refreshing.
C36_NoRefreshAfterDestroy ==
    [][isDestroyed =>
          /\ op'.name \in {"resize", "tick", "timer"} => Count(calls', "refresh") = 0
          /\ op'.name = "resize" => timeouts' = timeouts
          /\ op'.name = "timer" => UNCHANGED <<scaler, content, container>>]_vars

\* the timer of a resize that preceded destroy() has just fired
C36_Witness ==
    /\ op.name = "timer"
    /\ isDestroyed
    /\ calls = <<>>
    /\ scaler.isInitialized

\* the last operation was a setMode that called onModeChange
ModeChangeNotified == op.name = "setMode" /\ Count(calls, "onModeChange") > 0

\* C37: when setMode changes the mode of an initialized Scaler, the onResize
\* call of the refresh it triggers precedes the onModeChange call, which is the
\* last thing setMode does: at that moment getMode() is the new mode, the one
\* onModeChange is given, and getScale() the scale recomputed for it, the one
\* onResize was given.
C37_ResizeBeforeModeChange ==
    ModeChangeNotified =>
        /\ Count(calls, "onModeChange") = 1
        /\ calls[Len(calls)].f = "onModeChange"
        /\ calls[Len(calls)].mode = getMode
        /\ getMode = validateMode(op.arg)
        /\ getScale = ScaleOfViewport
        /\ scaler.options.onResize = "function" => Count(calls, "onResize") = 1
        /\ \A i \in Positions(calls, "onResize") :
              /\ i < Len(calls)
              /\ calls[i] = OnResizeCall

C37_Witness ==
    /\ ModeChangeNotified
    /\ Len(calls) = 4
    /\ calls[3].f = "onResize" /\ calls[3].scale = RatInt(MaxDim)
    /\ calls[4].f = "onModeChange" /\ calls[4].mode = FULLSCREEN
    /\ getMode = FULLSCREEN
    /\ getScale = RatInt(MaxDim)

\* C38: once the instance is bound, getScale() is the scale calculated from
\* the current mode, the current design size and the container's size read at
\* the most recent refresh: a step that refreshes leaves getScale() the scale
\* of the mode, the design size and the container it ends with, and a step
\* that does not refresh changes neither the mode nor the design size nor the
\* scale.
C38_ScaleFollows ==
    [][(scaler.isInitialized \/ scaler'.isInitialized) =>
          IF Count(calls', "refresh") > 0
          THEN getScale' = ScaleOfViewport'
          ELSE /\ getMode' = getMode
               /\ scaler'.designSize = scaler.designSize
               /\ getScale' = getScale]_vars

\* setDesignSize(1, 1) on a bound instance in fullscreen mode
C38_Witness ==
    /\ op = Op("setDesignSize", <<1, 1>>)
    /\ Count(calls, "refresh") = 1
    /\ getMode = FULLSCREEN
    /\ scaler.designSize = [width |-> 1, height |-> 1]
    /\ container.offsetWidth = MaxDim
    /\ getScale = RatInt(MaxDim)

\* the step is an applyTo that finds its container
BindsNow == op'.name = "applyTo" /\ getElement(op'.arg) # NULL

\* C39: destroy() on an instance that has never been bound deregisters
\* nothing and does not mark it destroyed, so that such an instance is never
\* destroyed; a later applyTo that finds its container registers the resize
\* listener, a resize then refreshes the instance, and a later destroy()
\* deregisters the listener.
C39_DestroyUnbound ==
    /\ [](~isInitialized => (~isDestroyed /\ ~listening /\ removed = 0))
    /\ [][/\ (~isInitialized /\ op'.name = "destroy") =>
                /\ calls' = <<>>
                /\ UNCHANGED <<options, scaler, isInitialized, isDestroyed, listening,
                               added, removed, timeouts, Surface>>
          /\ (~isInitialized /\ BindsNow) =>
                /\ isInitialized' /\ listening' /\ ~isDestroyed'
                /\ added' = added + 1
                /\ Count(calls', "addEventListener") = 1
          /\ (listening /\ ~isDestroyed /\ op'.name = "resizeSettled") =>
                Count(calls', "refresh") = 1
          /\ (isInitialized /\ ~isDestroyed /\ op'.name = "destroy") =>
                /\ isDestroyed' /\ ~listening'
                /\ removed' = removed + 1
                /\ Count(calls', "removeEventListener") = 1]_vars

\* destroy() has just been called on an instance that was never bound
C39_Witness ==
    /\ op.name = "destroy"
    /\ ~isInitialized /\ ~isDestroyed /\ ~listening
    /\ scaler.container = NULL
    /\ added = 0 /\ removed = 0
    /\ calls = <<>>

\* the step is an applyTo on the container the previous step's applyTo bound
AppliedAgain ==
    /\ op.name = "applyTo" /\ getElement(op.arg) # NULL
    /\ op'.name = "applyTo" /\ op'.arg = op.arg

\* C40: applyTo is repeatable: a second applyTo on the same container, with
\* nothing changed since the first, leaves the Scaler's design size and scale
\* as the first call left them, in proportional and in fullscreen mode.
C40_Repeatable ==
    [][AppliedAgain =>
          /\ scaler'.designSize = scaler.designSize
          /\ getScale' = getScale]_vars

====
